---- MODULE Spec2Model ----
(***************************************************************************)
(* Thai checkers rules engine, positional evaluator and quiescence         *)
(* minimax of src/src/training/colab_batch_final.py.                       *)
(*                                                                         *)
(* A game object is a record [board, current_player, move_count]; the      *)
(* board maps <<row, col>> to -2..2 (1 man / 2 king of player 1, negative  *)
(* for player -1).  A move is <<<<fr, fc>>, <<tr, tc>>>> as in the code.   *)
(* Methods that assign to fields of the object they receive return the     *)
(* object's value after the call, so that a caller that passes its own     *)
(* object instead of a copy sees the mutation.                             *)
(***************************************************************************)
EXTENDS Integers, Naturals, Sequences, FiniteSets, TLC

VARIABLES
    game,      \* the driver's ThaiCheckersGame object
    engine,    \* the MinimaxAIQuiescence object
    random,    \* the random source read by evaluate: [seed, pos]
    last       \* the last call made on them, its arguments and its result

vars == <<game, engine, random, last>>

\* ------------------------------------------------------------------------
\* Program constants

BoardSize == 8
MoveCap == 100
PIECE_VALUE == 100
KING_VALUE == 300
CENTER_CONTROL == 5
BACK_ROW_BONUS == 10
ENDGAME_BONUS == 50
CORNER_PENALTY == -15
EDGE_PENALTY == -8
ADVANCEMENT == 12
KING_CENTRALIZATION == 20
PIECE_UNDER_ATTACK == -80
WinScore == 5000
NoMoveScore == 10000
DeltaMargin == 100
max_quiescence_depth == 4
EndgamePieces == 4
KingEndgamePieces == 6

\* Scores are kept in half points: evaluate_endgame subtracts distance * 1.5,
\* every other term is a whole number.  A code score s is Unit * s here.
Unit == 2
\* float('inf'): larger than every score the engine can produce.
Inf == 1000000

\* ------------------------------------------------------------------------
\* Bounds of the model

\* Moves played from the opening position, and from an endgame position.
MaxPlies == 5
MaxEndPlies == 2
\* Engine depths 1 .. MaxDepth, random sources 0 .. MaxSeed.
MaxDepth == 2
MaxSeed == 1
\* A searched endgame starts SearchLead moves before the move cap, and the
\* best move found is played MaxSearchPlies times.
SearchLead == 3
MaxSearchPlies == 1
\* The plies played from the start position before an invalid call.
MaxMisusePlies == 2
\* The plies played from a position on which the extension rule is applied.
MaxExtensionPlies == 2
\* The moves left before the cap in the middle-game positions searched.
MidLead == 60
\* Largest row or column distance between the two pieces of a start endgame.
EndgameSpread == 2

\* ------------------------------------------------------------------------
\* Helpers

Rows == 0 .. (BoardSize - 1)
Cells == Rows \X Rows
OnBoard(r, c) == r \in Rows /\ c \in Rows

Abs(x) == IF x < 0 THEN -x ELSE x
Max(a, b) == IF a >= b THEN a ELSE b
Min(a, b) == IF a <= b THEN a ELSE b
Sign(x) == IF x > 0 THEN 1 ELSE IF x < 0 THEN -1 ELSE 0

\* The cells in board-scan order: for r in range(8): for c in range(8).
ScanOrder == [ i \in 1 .. BoardSize * BoardSize |->
                 << (i - 1) \div BoardSize, (i - 1) % BoardSize >> ]

\* np.sum(board > 0), np.sum(board < 0), np.sum(board != 0)
CountPieces(board, side) == Cardinality({ x \in Cells : board[x] * side > 0 })
TotalPieces(board) == Cardinality({ x \in Cells : board[x] # 0 })

EmptyBoard == [ x \in Cells |-> 0 ]

\* ------------------------------------------------------------------------
\* ThaiCheckersGame

positions_p1 == { <<0,1>>, <<0,3>>, <<0,5>>, <<0,7>>, <<1,0>>, <<1,2>>, <<1,4>>, <<1,6>> }
positions_p2 == { <<6,1>>, <<6,3>>, <<6,5>>, <<6,7>>, <<7,0>>, <<7,2>>, <<7,4>>, <<7,6>> }

reset ==
    [ board |-> [ x \in Cells |-> IF x \in positions_p1 THEN 1
                                  ELSE IF x \in positions_p2 THEN -1 ELSE 0 ],
      current_player |-> 1,
      move_count |-> 0 ]

\* (mutant) a man is given the four directions of a king.
Mut_Directions(g, piece) ==
    << <<1,1>>, <<1,-1>>, <<-1,1>>, <<-1,-1>> >>

\* Directions a piece may use, in the order the code tries them.
Directions(g, piece) ==
    IF Abs(piece) = 2 THEN << <<1,1>>, <<1,-1>>, <<-1,1>>, <<-1,-1>> >>
    ELSE IF g.current_player = 1 THEN << <<1,1>>, <<1,-1>> >>
    ELSE << <<-1,1>>, <<-1,-1>> >>

\* The quiet move of the piece on (r, c) in direction d, if any.
StepMove(g, r, c, d) ==
    LET nr == r + d[1]
        nc == c + d[2]
    IN  IF OnBoard(nr, nc) /\ g.board[<<nr, nc>>] = 0
        THEN << << <<r, c>>, <<nr, nc>> >> >>
        ELSE <<>>

\* The capture of the piece on (r, c) in direction d, if any.
JumpMove(g, r, c, d) ==
    LET nr == r + d[1]
        nc == c + d[2]
        jr == nr + d[1]
        jc == nc + d[2]
    IN  IF /\ OnBoard(nr, nc)
           /\ g.board[<<nr, nc>>] # 0
           /\ g.board[<<nr, nc>>] * g.current_player < 0
           /\ OnBoard(jr, jc)
           /\ g.board[<<jr, jc>>] = 0
        THEN << << <<r, c>>, <<jr, jc>> >> >>
        ELSE <<>>

RECURSIVE StepMoves(_, _, _, _, _)
\* The quiet moves of the piece on (r, c) over dirs[i..], in order.
StepMoves(g, r, c, dirs, i) ==
    IF i > Len(dirs) THEN <<>>
    ELSE StepMove(g, r, c, dirs[i]) \o StepMoves(g, r, c, dirs, i + 1)

RECURSIVE JumpMoves(_, _, _, _, _)
\* The captures of the piece on (r, c) over dirs[i..], in order.
JumpMoves(g, r, c, dirs, i) ==
    IF i > Len(dirs) THEN <<>>
    ELSE JumpMove(g, r, c, dirs[i]) \o JumpMoves(g, r, c, dirs, i + 1)

\* _get_piece_moves: [moves, captures] of the piece on (r, c).
get_piece_moves(g, r, c, piece) ==
    LET dirs == Directions(g, piece)
    IN  [ moves |-> StepMoves(g, r, c, dirs, 1),
          captures |-> JumpMoves(g, r, c, dirs, 1) ]

\* The cells the scan does not skip (piece * current_player <= 0: continue).
OwnedCells(g) ==
    SelectSeq(ScanOrder, LAMBDA x : g.board[x] * g.current_player > 0)

RECURSIVE ScanMoves(_, _, _)
\* moves.extend(piece_moves) over the owned cells cells[i..], in scan order.
ScanMoves(g, cells, i) ==
    IF i > Len(cells) THEN <<>>
    ELSE get_piece_moves(g, cells[i][1], cells[i][2], g.board[cells[i]]).moves
           \o ScanMoves(g, cells, i + 1)

RECURSIVE ScanCaptures(_, _, _)
\* captures.extend(piece_captures) over the owned cells cells[i..], in scan order.
ScanCaptures(g, cells, i) ==
    IF i > Len(cells) THEN <<>>
    ELSE get_piece_moves(g, cells[i][1], cells[i][2], g.board[cells[i]]).captures
           \o ScanCaptures(g, cells, i + 1)

all_moves(g) == ScanMoves(g, OwnedCells(g), 1)

all_captures(g) == ScanCaptures(g, OwnedCells(g), 1)

\* (mutant) captures are put in front of the quiet moves instead of replacing them.
Mut_get_valid_moves(g) == all_captures(g) \o all_moves(g)

get_valid_moves(g) ==
    LET captures == all_captures(g)
    IN  IF captures # <<>> THEN captures ELSE all_moves(g)

\* (mutant) the jumped piece stays on the board.
Mut_RemoveCaptured(b, move) == b

\* if abs(tr - fr) > 1: board[mr, mc] = 0
RemoveCaptured(b, move) ==
    LET fr == move[1][1]
        fc == move[1][2]
        tr == move[2][1]
        tc == move[2][2]
    IN  IF Abs(tr - fr) > 1
        THEN [ b EXCEPT ![<<(fr + tr) \div 2, (fc + tc) \div 2>>] = 0 ]
        ELSE b

\* (mutant) a man reaching the far row stays a man.
Mut_Promote(b, player, piece, tr, tc) == b

\* A man of the mover landing on the far row becomes a king.
Promote(b, player, piece, tr, tc) ==
    IF player = 1 /\ tr = BoardSize - 1 /\ piece = 1
    THEN [ b EXCEPT ![<<tr, tc>>] = 2 ]
    ELSE IF player = -1 /\ tr = 0 /\ piece = -1
    THEN [ b EXCEPT ![<<tr, tc>>] = -2 ]
    ELSE b

\* (mutant) the side to move stays the same.
Mut_make_move(g, move) ==
    [ board |-> Promote(RemoveCaptured([ g.board EXCEPT ![move[2]] = g.board[move[1]],
                                                        ![move[1]] = 0 ], move),
                        g.current_player, g.board[move[1]], move[2][1], move[2][2]),
      current_player |-> g.current_player,
      move_count |-> g.move_count + 1 ]

\* make_move: the game object after the call.
make_move(g, move) ==
    LET fr == move[1][1]
        fc == move[1][2]
        tr == move[2][1]
        tc == move[2][2]
        piece == g.board[<<fr, fc>>]
        b1 == [ g.board EXCEPT ![<<tr, tc>>] = piece ]
        b2 == [ b1 EXCEPT ![<<fr, fc>>] = 0 ]
        b3 == RemoveCaptured(b2, move)
        b4 == Promote(b3, g.current_player, piece, tr, tc)
    IN  [ board |-> b4,
          current_player |-> g.current_player * (-1),
          move_count |-> g.move_count + 1 ]

\* (mutant) the game ends when the counter reaches the cap.
Mut_OverCap(g) == g.move_count >= MoveCap

\* if self.move_count > 100
OverCap(g) == g.move_count > MoveCap

\* (mutant) a side to move without a move does not end the game.
Mut_is_game_over(g) ==
    IF CountPieces(g.board, 1) = 0 \/ CountPieces(g.board, -1) = 0 THEN TRUE
    ELSE IF OverCap(g) THEN TRUE
    ELSE FALSE

is_game_over(g) ==
    IF get_valid_moves(g) = <<>> THEN TRUE
    ELSE IF CountPieces(g.board, 1) = 0 \/ CountPieces(g.board, -1) = 0 THEN TRUE
    ELSE IF OverCap(g) THEN TRUE
    ELSE FALSE

\* (mutant) a side to move without a move does not lose.
Mut_draw_get_winner(g) ==
    IF CountPieces(g.board, 1) = 0 THEN -1
    ELSE IF CountPieces(g.board, -1) = 0 THEN 1
    ELSE 0

\* (mutant) a blocked side to move is reported as the winner.
Mut_get_winner(g) ==
    IF CountPieces(g.board, 1) = 0 THEN -1
    ELSE IF CountPieces(g.board, -1) = 0 THEN 1
    ELSE IF get_valid_moves(g) = <<>> THEN g.current_player
    ELSE 0

get_winner(g) ==
    IF CountPieces(g.board, 1) = 0 THEN -1
    ELSE IF CountPieces(g.board, -1) = 0 THEN 1
    ELSE IF get_valid_moves(g) = <<>> THEN -g.current_player
    ELSE 0

copy(g) ==
    [ board |-> g.board, current_player |-> g.current_player, move_count |-> g.move_count ]

\* ------------------------------------------------------------------------
\* EvaluationFunction (scores in units of 1 / Unit)

\* The non-empty cells in scan order (if piece == 0: continue).
PieceCells(g) == SelectSeq(ScanOrder, LAMBDA x : g.board[x] # 0)

\* abs(r - 3.5) + abs(c - 3.5): a whole number, the sum of two odd halves.
center_distance(r, c) == (Abs(2 * r - (BoardSize - 1)) + Abs(2 * c - (BoardSize - 1))) \div 2

get_edge_penalty(r, c) ==
    LET last_row == BoardSize - 1
    IN  (IF r = 0 \/ r = last_row THEN EDGE_PENALTY ELSE 0)
      + (IF c = 0 \/ c = last_row THEN EDGE_PENALTY ELSE 0)
      + (IF (r = 0 \/ r = last_row) /\ (c = 0 \/ c = last_row) THEN CORNER_PENALTY ELSE 0)

\* evaluate_material, one cell.
MaterialAt(g, player, x) ==
    LET piece == g.board[x]
        value == IF Abs(piece) = 2 THEN KING_VALUE ELSE PIECE_VALUE
    IN  IF piece * player > 0 THEN value ELSE -value

\* evaluate_position, one cell: only the men of player score.
PositionAt(g, player, x) ==
    LET piece == g.board[x]
    IN  IF piece * player <= 0 THEN 0
        ELSE IF Abs(piece) = 1
        THEN (BoardSize - 1 - center_distance(x[1], x[2])) * CENTER_CONTROL
             + get_edge_penalty(x[1], x[2])
             + (IF (player = 1 /\ x[1] = 0) \/ (player = -1 /\ x[1] = BoardSize - 1)
                THEN BACK_ROW_BONUS ELSE 0)
        ELSE 0

\* evaluate_advancement, one cell.
AdvancementAt(g, player, x) ==
    LET piece == g.board[x]
    IN  IF Abs(piece) = 2 THEN 0
        ELSE IF piece * player > 0
        THEN IF player = 1 THEN (BoardSize - 1 - x[1]) * ADVANCEMENT
             ELSE x[1] * ADVANCEMENT
        ELSE 0

\* evaluate_king_position, one cell.
KingPositionAt(g, player, x) ==
    LET piece == g.board[x]
    IN  IF Abs(piece) = 2 /\ piece * player > 0
        THEN (IF TotalPieces(g.board) <= KingEndgamePieces
              THEN (BoardSize - 1 - center_distance(x[1], x[2])) * KING_CENTRALIZATION
              ELSE 0)
             + get_edge_penalty(x[1], x[2])
        ELSE 0

\* The four per-cell terms evaluate adds before the threat term.
CellScore(g, player, x) ==
    MaterialAt(g, player, x) + PositionAt(g, player, x)
      + AdvancementAt(g, player, x) + KingPositionAt(g, player, x)

RECURSIVE SumCells(_, _, _, _)
SumCells(g, player, cells, i) ==
    IF i > Len(cells) THEN 0
    ELSE CellScore(g, player, cells[i]) + SumCells(g, player, cells, i + 1)

RECURSIVE SumDistances(_, _, _)
\* The sum over the (mine, theirs) pairs pairs[i..] of the Manhattan distance.
SumDistances(pairs, i, n) ==
    IF i > n THEN 0
    ELSE Abs(pairs[i][1][1] - pairs[i][2][1]) + Abs(pairs[i][1][2] - pairs[i][2][2])
           + SumDistances(pairs, i + 1, n)

\* evaluate_endgame, in units of 1 / Unit (distance * 1.5 is 3 * distance halves).
evaluate_endgame(g, player) ==
    IF TotalPieces(g.board) > EndgamePieces THEN 0
    ELSE LET my_pieces == CountPieces(g.board, player)
             opp_pieces == CountPieces(g.board, -player)
             my_positions == SelectSeq(ScanOrder, LAMBDA x : g.board[x] * player > 0)
             opp_positions == SelectSeq(ScanOrder, LAMBDA x : g.board[x] * player < 0)
             n == Len(my_positions) * Len(opp_positions)
             pairs == [ k \in 1 .. n |->
                          << my_positions[((k - 1) \div Len(opp_positions)) + 1],
                             opp_positions[((k - 1) % Len(opp_positions)) + 1] >> ]
         IN  IF my_pieces > opp_pieces
             THEN Unit * ENDGAME_BONUS * (my_pieces - opp_pieces)
                  - ((3 * Unit) \div 2) * SumDistances(pairs, 1, n)
             ELSE 0

\* The captures among the moves of g whose jumped piece belongs to player.
ThreatCount(g, player) ==
    LET opp_captures == SelectSeq(get_valid_moves(g),
                                  LAMBDA m : Abs(m[1][1] - m[2][1]) > 1)
    IN  Len(SelectSeq(opp_captures,
                      LAMBDA m : g.board[<< (m[1][1] + m[2][1]) \div 2,
                                            (m[1][2] + m[2][2]) \div 2 >>] * player > 0))

\* (mutant) the side to move is left on the opponent after the threat term.
Mut_RestorePlayer(g, original_player) == g

\* game.current_player = original_player
RestorePlayer(g, original_player) == [ g EXCEPT !.current_player = original_player ]

\* (mutant) a finished game without a winner counts as lost.
Mut_TerminalScore(winner, player) ==
    IF winner = player THEN Unit * WinScore ELSE -(Unit * WinScore)

\* The score of a finished game for player: 5000, -5000 or 0.0.
TerminalScore(winner, player) ==
    IF winner = player THEN Unit * WinScore
    ELSE IF winner # 0 THEN -(Unit * WinScore)
    ELSE 0

\* evaluate(game, player) with the random term (random.random() - 0.5) * 4
\* given as jitter (in units of 1 / Unit): the score, the game object as the
\* call leaves it, and the number of calls made to random.random().
evaluate(g, player, jitter) ==
    IF is_game_over(g)
    THEN [ score |-> TerminalScore(get_winner(g), player), game |-> g, draws |-> 0 ]
    ELSE LET cells == Unit * SumCells(g, player, PieceCells(g), 1)
             original_player == g.current_player
             g1 == [ g EXCEPT !.current_player = -player ]
             threat == Unit * PIECE_UNDER_ATTACK * ThreatCount(g1, player)
             g2 == RestorePlayer(g1, original_player)
         IN  [ score |-> cells + threat + evaluate_endgame(g2, player) + jitter,
               game |-> g2,
               draws |-> 1 ]

\* ------------------------------------------------------------------------
\* MinimaxAIQuiescence: move ordering and extensions

is_capture(move) ==
    Abs(move[2][1] - move[1][1]) > 1 \/ Abs(move[2][2] - move[1][2]) > 1

filter_capture_moves(moves) == SelectSeq(moves, is_capture)

get_captured_piece_value(move, g) ==
    IF Abs(move[2][1] - move[1][1]) <= 1 /\ Abs(move[2][2] - move[1][2]) <= 1 THEN 0
    ELSE LET captured_piece ==
               g.board[<< (move[1][1] + move[2][1]) \div 2, (move[1][2] + move[2][2]) \div 2 >>]
         IN  IF captured_piece = 0 THEN 0
             ELSE IF Abs(captured_piece) = 2 THEN KING_VALUE ELSE PIECE_VALUE

\* The index of the first largest key.
FirstMax(keys) ==
    CHOOSE i \in 1 .. Len(keys) :
        /\ \A j \in 1 .. Len(keys) : keys[j] <= keys[i]
        /\ \A j \in 1 .. (i - 1) : keys[j] < keys[i]

Remove(seq, i) == SubSeq(seq, 1, i - 1) \o SubSeq(seq, i + 1, Len(seq))

RECURSIVE SortDesc(_, _)
\* scored_moves.sort(key=score, reverse=True): stable, largest key first.
SortDesc(moves, keys) ==
    IF moves = <<>> THEN <<>>
    ELSE LET i == FirstMax(keys)
         IN  << moves[i] >> \o SortDesc(Remove(moves, i), Remove(keys, i))

order_captures_by_value(moves, g) ==
    SortDesc(moves, [ i \in 1 .. Len(moves) |-> get_captured_piece_value(moves[i], g) ])

\* The ordering score of a quiet move.
QuietScore(move, g) ==
    LET fr == move[1][1]
        tr == move[2][1]
        tc == move[2][2]
        piece == g.board[move[1]]
    IN  (BoardSize - 1 - center_distance(tr, tc)) * 8
        + (IF piece > 0 THEN (fr - tr) * 16 ELSE (tr - fr) * 16)
        + (IF Abs(piece) = 2 THEN 25 ELSE 0)

order_quiet_moves(moves, g) ==
    SortDesc(moves, [ i \in 1 .. Len(moves) |-> QuietScore(moves[i], g) ])

order_moves(moves, g) ==
    LET captures == SelectSeq(moves, is_capture)
        quiet_moves == SelectSeq(moves, LAMBDA m : ~is_capture(m))
    IN  order_captures_by_value(captures, g) \o order_quiet_moves(quiet_moves, g)

\* (mutant) the square compared is the one the move lands on.
Mut_move_captures_square(move, target_row, target_col) ==
    IF Abs(move[2][1] - move[1][1]) <= 1 THEN FALSE
    ELSE move[2][1] = target_row /\ move[2][2] = target_col

move_captures_square(move, target_row, target_col) ==
    IF Abs(move[2][1] - move[1][1]) <= 1 THEN FALSE
    ELSE (move[1][1] + move[2][1]) \div 2 = target_row
         /\ (move[1][2] + move[2][2]) \div 2 = target_col

count_recaptures(parent_game, opponent_move) ==
    LET game_copy == make_move(copy(parent_game), opponent_move)
        our_moves == get_valid_moves(game_copy)
    IN  Len(SelectSeq(our_moves,
                      LAMBDA m : move_captures_square(m, opponent_move[2][1],
                                                      opponent_move[2][2])))

\* (mutant) a capture extends the search by two plies.
Mut_get_search_extension(move, child_game) ==
    IF Abs(move[1][1] - move[2][1]) > 1 THEN 2
    ELSE LET opp_moves == get_valid_moves(child_game)
         IN  IF Len(opp_moves) <= 1 THEN 1 ELSE 0

get_search_extension(move, child_game) ==
    IF Abs(move[1][1] - move[2][1]) > 1 THEN 1
    ELSE LET opp_moves == get_valid_moves(child_game)
         IN  IF Len(opp_moves) <= 1 THEN 1
             ELSE IF ~(\A i \in 1 .. Len(opp_moves) :
                         Abs(opp_moves[i][1][1] - opp_moves[i][2][1]) > 1) THEN 0
             ELSE IF \E i \in 1 .. Len(opp_moves) :
                         count_recaptures(child_game, opp_moves[i]) > 0 THEN 1
             ELSE 0

\* ------------------------------------------------------------------------
\* MinimaxAIQuiescence: the search
\*
\* eng is the engine object's configuration [max_depth, player, tt_on]:
\* tt_on = TRUE is the code; tt_on = FALSE is the code with every lookup of
\* the transposition table missing.  st is what a search changes besides
\* game objects: [tt, nodes, rnd], the transposition table, nodes_evaluated
\* and the state of the random source [seed, pos].

\* The value (random.random() - 0.5) * 4 of the pos-th draw of source seed, in
\* units of 1 / Unit: within [-2, 2) points.  Source 0 is the constant 0.
JitterAt(rnd) ==
    IF rnd.seed = 0 THEN 0
    ELSE ((rnd.seed * 5 + rnd.pos * 3) % (4 * Unit)) - 2 * Unit

\* EvaluationFunction.evaluate(game, self.player) inside a search: the result
\* e of evaluate with the random source advanced by the draws it made.
Drawn(e, st) ==
    [ score |-> e.score, game |-> e.game, st |-> [ st EXCEPT !.rnd.pos = @ + e.draws ] ]

Eval(eng, g, st) == Drawn(evaluate(g, eng.player, JitterAt(st.rnd)), st)

CountNode(st) == [ st EXCEPT !.nodes = @ + 1 ]

\* ------------------------------------------------------------------------
\* The rules of the game, stated on their own

Range(seq) == { seq[i] : i \in 1 .. Len(seq) }
Diagonals == { <<1,1>>, <<1,-1>>, <<-1,1>>, <<-1,-1>> }
Shift(x, d, k) == << x[1] + k * d[1], x[2] + k * d[2] >>

\* A piece v may go in direction d: a king anywhere, a man toward the other side.
MayGo(v, d) == Abs(v) = 2 \/ d[1] = Sign(v)

OwnedSet(g) == { x \in Cells : g.board[x] * g.current_player > 0 }

RuleCaptures(g) ==
    { << t[1], Shift(t[1], t[2], 2) >> : t \in
        { t \in OwnedSet(g) \X Diagonals :
            /\ MayGo(g.board[t[1]], t[2])
            /\ Shift(t[1], t[2], 2) \in Cells
            /\ g.board[Shift(t[1], t[2], 1)] * g.current_player < 0
            /\ g.board[Shift(t[1], t[2], 2)] = 0 } }

RuleQuiets(g) ==
    { << t[1], Shift(t[1], t[2], 1) >> : t \in
        { t \in OwnedSet(g) \X Diagonals :
            /\ MayGo(g.board[t[1]], t[2])
            /\ Shift(t[1], t[2], 1) \in Cells
            /\ g.board[Shift(t[1], t[2], 1)] = 0 } }

IsJump(move) == Abs(move[2][1] - move[1][1]) = 2
MidCell(move) == << (move[1][1] + move[2][1]) \div 2, (move[1][2] + move[2][2]) \div 2 >>

\* What one call of get_best_move did, kept beside the search state:
\*   qcalls  the calls of quiescence_search, <<q_depth of the caller (-1 for
\*           minimax), q_depth passed>>;
\*   qmoves  the q_depth of the calls of quiescence_search that generated moves;
\*   qleaf   the calls of quiescence_search at the depth cap, <<q_depth, game
\*           passed, score returned>>;
\*   mcalls  the calls of minimax, <<depth of the caller (max_depth for
\*           get_best_move), depth passed, move_count of the caller's game,
\*           move_count of the game passed>>;
\*   stores  the entries stored after a move loop, <<alpha and beta the node was
\*           called with, best_score, type, maximizing_player>>;
\*   root    the <<move, score>> pairs of the loop of get_best_move, in order;
\*   tables  the table found at moves = game.get_valid_moves() in get_best_move;
\*   qnodes  the calls of quiescence_search below the depth cap,
\*           <<maximizing_player, alpha, beta, stand_pat, the side to move of
\*           the game passed has a capture, the side the call sets has a
\*           capture, score returned>>;
\*   qapplied  the moves quiescence_search applied, <<it is a jump, the piece
\*           on the cell jumped over is the opponent's>>;
\*   qdelta  the captures the loop of quiescence_search came to,
\*           <<maximizing_player, stand_pat, the piece jumped over, alpha and
\*           beta at that turn of the loop, the capture was skipped>>;
\*   qflips  the recursive calls of quiescence_search, <<maximizing_player
\*           and side to move of the caller, maximizing_player and side to
\*           move passed>>;
\*   mterm   the calls of minimax on a finished game, <<get_winner of the
\*           game, score returned, the table is as the call found it, the
\*           side to move has pieces and no move>>;
\*   sides   the calls of minimax and quiescence_search, <<the function,
\*           maximizing_player, the side to move of the game passed, the
\*           assignment game.current_player = current_player leaves the game
\*           as it is>>;
\*   nomoves the calls of minimax that found no move on a game that is not
\*           over, <<depth, maximizing_player, score returned>>;
\*   qexits  the ends of the loop of quiescence_search, <<it ended by break,
\*           alpha, beta, captures the loop came to, captures in the list>>.
EmptyLog ==
    [ qcalls |-> {}, qmoves |-> {}, qleaf |-> {}, mcalls |-> {}, stores |-> {}, root |-> <<>>,
      tables |-> {}, qnodes |-> {}, qapplied |-> {}, qdelta |-> {}, qflips |-> {},
      qexits |-> {}, mterm |-> {}, sides |-> {}, nomoves |-> {} ]

LogQCall(st, from, to) == [ st EXCEPT !.log.qcalls = @ \cup { <<from, to>> } ]
LogQMoves(st, q_depth) == [ st EXCEPT !.log.qmoves = @ \cup { q_depth } ]
LogQLeaf(r, g, q_depth) ==
    IF q_depth >= max_quiescence_depth
    THEN [ r EXCEPT !.st.log.qleaf = @ \cup { <<q_depth, g, r.score>> } ]
    ELSE r
LogMCall(st, from, to, g, child) ==
    [ st EXCEPT !.log.mcalls = @ \cup { <<from, to, g.move_count, child.move_count>> } ]
LogStore(st, alpha, beta, score, type, maximizing_player) ==
    [ st EXCEPT !.log.stores = @ \cup { <<alpha, beta, score, type, maximizing_player>> } ]
\* The table as get_best_move finds it at moves = game.get_valid_moves().
LogTable(st) == [ st EXCEPT !.log.tables = @ \cup { st.tt } ]

LogQNode(r, g, side, alpha, beta, maximizing_player, q_depth, stand_pat) ==
    IF q_depth >= max_quiescence_depth THEN r
    ELSE [ r EXCEPT !.st.log.qnodes = @ \cup
             { << maximizing_player, alpha, beta, stand_pat,
                  RuleCaptures(g) # {},
                  RuleCaptures([ g EXCEPT !.current_player = side ]) # {},
                  r.score >> } ]
LogQApply(st, g, move) ==
    [ st EXCEPT !.log.qapplied = @ \cup
        { << IsJump(move), g.board[MidCell(move)] * g.current_player < 0 >> } ]

LogQDelta(st, g, move, maximizing_player, stand_pat, alpha, beta, skipped) ==
    [ st EXCEPT !.log.qdelta = @ \cup
        { << maximizing_player, stand_pat, g.board[MidCell(move)], alpha, beta, skipped >> } ]
LogQFlip(st, g, child, maximizing_player, passed) ==
    [ st EXCEPT !.log.qflips = @ \cup
        { << maximizing_player, g.current_player, passed, child.current_player >> } ]
LogQExit(r, broke, alpha, beta, i, n) ==
    [ r EXCEPT !.st.log.qexits = @ \cup { << broke, alpha, beta, i, n >> } ]

LogMTerm(r, g, tt) ==
    [ r EXCEPT !.st.log.mterm = @ \cup
        { << get_winner(g), r.score, r.st.tt = tt,
             get_valid_moves(g) = <<>> /\ CountPieces(g.board, g.current_player) > 0 >> } ]

LogSide(st, function, eng, g, maximizing_player) ==
    [ st EXCEPT !.log.sides = @ \cup
        { << function, maximizing_player, g.current_player,
             [ g EXCEPT !.current_player =
                   IF maximizing_player THEN eng.player ELSE -eng.player ] = g >> } ]
LogNoMove(st, depth, maximizing_player, score) ==
    [ st EXCEPT !.log.nomoves = @ \cup { << depth, maximizing_player, score >> } ]

LogRoot(st, move, score) == [ st EXCEPT !.log.root = Append(@, <<move, score>>) ]

get_board_key(eng, g, depth, maximizing_player) ==
    << g.board, IF maximizing_player THEN eng.player ELSE -eng.player,
       depth, maximizing_player >>

\* self.transposition_table[board_key] = {score, depth, type}
Store(st, board_key, score, depth, type) ==
    [ st EXCEPT !.tt = (board_key :> [ score |-> score, depth |-> depth, type |-> type ]) @@ @ ]

\* The cached entry answers the call.
CacheHit(eng, st, board_key, depth, alpha, beta) ==
    /\ eng.tt_on
    /\ board_key \in DOMAIN st.tt
    /\ st.tt[board_key].depth >= depth
    /\ \/ st.tt[board_key].type = "exact"
       \/ st.tt[board_key].type = "lower" /\ st.tt[board_key].score >= beta
       \/ st.tt[board_key].type = "upper" /\ st.tt[board_key].score <= alpha

\* (mutant) the move is made on the caller's object, not on a copy.
Mut_ApplyOnCopy(g, move) ==
    [ parent |-> make_move(g, move), child |-> make_move(g, move) ]

\* game_copy = game.copy(); game_copy.make_move(move): the caller's object
\* and the copy afterwards.
ApplyOnCopy(g, move) ==
    [ parent |-> g, child |-> make_move(copy(g), move) ]

\* (mutant) the side set is the other one.
Mut_SetSide(eng, g, maximizing_player) ==
    [ g EXCEPT !.current_player = IF maximizing_player THEN -eng.player ELSE eng.player ]

\* game.current_player = self.player if maximizing_player else self.opponent
SetSide(eng, g, maximizing_player) ==
    [ g EXCEPT !.current_player = IF maximizing_player THEN eng.player ELSE -eng.player ]

\* (mutant) a capture is skipped when it cannot reach alpha / beta without
\* the safety margin.
Mut_DeltaPruned(maximizing_player, stand_pat, owned_gain, alpha, beta) ==
    IF maximizing_player
    THEN stand_pat + Unit * owned_gain < alpha
    ELSE stand_pat - Unit * owned_gain > beta

\* stand_pat + owned_gain + 100 < alpha  /  stand_pat - owned_gain - 100 > beta
DeltaPruned(maximizing_player, stand_pat, owned_gain, alpha, beta) ==
    IF maximizing_player
    THEN stand_pat + Unit * owned_gain + Unit * DeltaMargin < alpha
    ELSE stand_pat - Unit * owned_gain - Unit * DeltaMargin > beta

RECURSIVE quiescence_search(_, _, _, _, _, _, _)
RECURSIVE QuiescenceLoop(_, _, _, _, _, _, _, _, _, _, _)

\* self.quiescence_search(game_copy, alpha, beta, not maximizing_player,
\* q_depth + 1), with the call noted.
QuiescenceCall(eng, g, child, move, alpha, beta, maximizing_player, passed, from, to, st) ==
    quiescence_search(eng, child, alpha, beta, passed, to,
                      LogQCall(LogQFlip(LogQApply(st, g, move), g, child,
                                        maximizing_player, passed),
                               from, to))

\* The rest of one turn of the loop over ordered_captures, the recursive call
\* having returned r: max_eval / min_eval, alpha / beta, and the break.
QuiescenceStep(eng, g, moves, i, stand_pat, alpha, beta, maximizing_player, q_depth, best, r) ==
    LET best1 == IF maximizing_player THEN Max(best, r.score) ELSE Min(best, r.score)
        alpha1 == IF maximizing_player THEN Max(alpha, r.score) ELSE alpha
        beta1 == IF maximizing_player THEN beta ELSE Min(beta, r.score)
    IN  IF alpha1 >= beta1
        THEN LogQExit([ score |-> best1, game |-> g, st |-> r.st ],
                      TRUE, alpha1, beta1, i, Len(moves))
        ELSE QuiescenceLoop(eng, g, moves, i + 1, stand_pat, alpha1, beta1,
                            maximizing_player, q_depth, best1, r.st)

\* The loop over ordered_captures from index i: [score, game, st].
QuiescenceLoop(eng, g, moves, i, stand_pat, alpha, beta, maximizing_player, q_depth, best, st) ==
    IF i > Len(moves)
    THEN LogQExit([ score |-> best, game |-> g, st |-> st ],
                  FALSE, alpha, beta, i - 1, Len(moves))
    ELSE IF DeltaPruned(maximizing_player, stand_pat,
                        get_captured_piece_value(moves[i], g), alpha, beta)
    THEN QuiescenceLoop(eng, g, moves, i + 1, stand_pat, alpha, beta,
                        maximizing_player, q_depth, best,
                        LogQDelta(st, g, moves[i], maximizing_player, stand_pat,
                                  alpha, beta, TRUE))
    ELSE LET ac == ApplyOnCopy(g, moves[i])
         IN  QuiescenceStep(eng, ac.parent, moves, i, stand_pat, alpha, beta,
                            maximizing_player, q_depth, best,
                            QuiescenceCall(eng, g, ac.child, moves[i], alpha, beta,
                                           maximizing_player, ~maximizing_player,
                                           q_depth, q_depth + 1,
                                           LogQDelta(st, g, moves[i], maximizing_player,
                                                     stand_pat, alpha, beta, FALSE)))

\* quiescence_search from "capture_moves = ..." on, game.current_player set.
QuiescenceCaptures(eng, g, stand_pat, alpha, beta, maximizing_player, q_depth, st) ==
    LET capture_moves == filter_capture_moves(get_valid_moves(g))
    IN  IF capture_moves = <<>>
        THEN [ score |-> stand_pat, game |-> g, st |-> LogQMoves(st, q_depth) ]
        ELSE QuiescenceLoop(eng, g, order_captures_by_value(capture_moves, g), 1,
                            stand_pat, alpha, beta, maximizing_player, q_depth,
                            stand_pat, LogQMoves(st, q_depth))

\* (mutant) a stand-pat cutoff returns stand_pat, not the bound.
Mut_soft_QuiescenceStandPat(eng, alpha, beta, maximizing_player, q_depth, e) ==
    IF q_depth >= max_quiescence_depth THEN e
    ELSE IF maximizing_player /\ e.score >= beta THEN e
    ELSE IF ~maximizing_player /\ e.score <= alpha THEN e
    ELSE QuiescenceCaptures(eng, SetSide(eng, e.game, maximizing_player), e.score,
                            IF maximizing_player THEN Max(alpha, e.score) ELSE alpha,
                            IF maximizing_player THEN beta ELSE Min(beta, e.score),
                            maximizing_player, q_depth, e.st)

\* (mutant) the cap is tested with > : a call at the cap searches on.
Mut_QuiescenceStandPat(eng, alpha, beta, maximizing_player, q_depth, e) ==
    IF q_depth > max_quiescence_depth THEN e
    ELSE IF maximizing_player /\ e.score >= beta
    THEN [ score |-> beta, game |-> e.game, st |-> e.st ]
    ELSE IF ~maximizing_player /\ e.score <= alpha
    THEN [ score |-> alpha, game |-> e.game, st |-> e.st ]
    ELSE QuiescenceCaptures(eng, SetSide(eng, e.game, maximizing_player), e.score,
                            IF maximizing_player THEN Max(alpha, e.score) ELSE alpha,
                            IF maximizing_player THEN beta ELSE Min(beta, e.score),
                            maximizing_player, q_depth, e.st)

\* quiescence_search once stand_pat is evaluated (e): the depth cap and the
\* stand-pat cutoffs.
QuiescenceStandPat(eng, alpha, beta, maximizing_player, q_depth, e) ==
    IF q_depth >= max_quiescence_depth THEN e
    ELSE IF maximizing_player /\ e.score >= beta
    THEN [ score |-> beta, game |-> e.game, st |-> e.st ]
    ELSE IF ~maximizing_player /\ e.score <= alpha
    THEN [ score |-> alpha, game |-> e.game, st |-> e.st ]
    ELSE QuiescenceCaptures(eng, SetSide(eng, e.game, maximizing_player), e.score,
                            IF maximizing_player THEN Max(alpha, e.score) ELSE alpha,
                            IF maximizing_player THEN beta ELSE Min(beta, e.score),
                            maximizing_player, q_depth, e.st)

\* quiescence_search once stand_pat is evaluated (e), with the call noted.
QuiescenceNode(eng, g, alpha, beta, maximizing_player, q_depth, e) ==
    LogQNode(LogQLeaf(QuiescenceStandPat(eng, alpha, beta, maximizing_player, q_depth, e),
                      g, q_depth),
             g, IF maximizing_player THEN eng.player ELSE -eng.player,
             alpha, beta, maximizing_player, q_depth, e.score)

\* quiescence_search(game, alpha, beta, maximizing_player, q_depth): [score, game, st].
quiescence_search(eng, g, alpha, beta, maximizing_player, q_depth, st) ==
    QuiescenceNode(eng, g, alpha, beta, maximizing_player, q_depth,
                   Eval(eng, g, LogSide(CountNode(st), "quiescence_search", eng, g,
                                        maximizing_player)))

RECURSIVE minimax(_, _, _, _, _, _, _)
RECURSIVE MinimaxLoop(_, _, _, _, _, _, _, _, _, _)

\* (mutant) the call passes maximizing_player as the caller has it.
Mut_MinimaxCall(eng, g, child, from, to, alpha, beta, maximizing_player, st) ==
    minimax(eng, child, to, alpha, beta, ~maximizing_player, LogMCall(st, from, to, g, child))

\* score = self.minimax(game_copy, max(0, depth - 1 + extension), ...): the
\* call made by a node of remaining depth from on game g, with depth to passed.
MinimaxCall(eng, g, child, from, to, alpha, beta, maximizing_player, st) ==
    minimax(eng, child, to, alpha, beta, maximizing_player, LogMCall(st, from, to, g, child))

\* The rest of one turn of the loop over ordered_moves, the recursive call
\* having returned r.
MinimaxStep(eng, g, moves, i, depth, alpha, beta, maximizing_player, best, r) ==
    LET best1 == IF maximizing_player THEN Max(best, r.score) ELSE Min(best, r.score)
        alpha1 == IF maximizing_player THEN Max(alpha, r.score) ELSE alpha
        beta1 == IF maximizing_player THEN beta ELSE Min(beta, r.score)
    IN  IF beta1 <= alpha1
        THEN [ score |-> best1, alpha |-> alpha1, beta |-> beta1, game |-> g, st |-> r.st ]
        ELSE MinimaxLoop(eng, g, moves, i + 1, depth, alpha1, beta1,
                         maximizing_player, best1, r.st)

\* The loop over ordered_moves from index i: [score, alpha, beta, game, st]
\* when the loop ends or breaks.
MinimaxLoop(eng, g, moves, i, depth, alpha, beta, maximizing_player, best, st) ==
    IF i > Len(moves)
    THEN [ score |-> best, alpha |-> alpha, beta |-> beta, game |-> g, st |-> st ]
    ELSE LET ac == ApplyOnCopy(g, moves[i])
         IN  MinimaxStep(eng, ac.parent, moves, i, depth, alpha, beta,
                         maximizing_player, best,
                         MinimaxCall(eng, ac.parent, ac.child, depth,
                                     Max(0, depth - 1 + get_search_extension(moves[i], ac.child)),
                                     alpha, beta, ~maximizing_player, st))

\* The end of minimax after the loop l: the entry type from the bounds as the
\* loop left them, the store and the return.
MinimaxStored(board_key, depth, alpha, beta, maximizing_player, l) ==
    LET tt_type == IF l.score <= l.alpha THEN "upper"
                   ELSE IF l.score >= l.beta THEN "lower"
                   ELSE "exact"
    IN  [ score |-> l.score, game |-> l.game,
          st |-> LogStore(Store(l.st, board_key, l.score, depth, tt_type),
                          alpha, beta, l.score, tt_type, maximizing_player) ]

\* The depth == 0 branch of minimax after quiescence_search returned q.
QuiescenceStored(board_key, depth, q) ==
    [ score |-> q.score, game |-> q.game,
      st |-> Store(q.st, board_key, q.score, depth, "exact") ]

\* minimax(game, depth, alpha, beta, maximizing_player): [score, game, st].
minimax(eng, g, depth, alpha, beta, maximizing_player, st) ==
    LET st1 == LogSide(CountNode(st), "minimax", eng, g, maximizing_player)
        board_key == get_board_key(eng, g, depth, maximizing_player)
    IN  IF is_game_over(g) THEN LogMTerm(Eval(eng, g, st1), g, st1.tt)
        ELSE IF CacheHit(eng, st1, board_key, depth, alpha, beta)
        THEN [ score |-> st1.tt[board_key].score, game |-> g, st |-> st1 ]
        ELSE IF depth = 0
        THEN QuiescenceStored(board_key, depth,
                              quiescence_search(eng, g, alpha, beta, maximizing_player, 0,
                                                LogQCall(st1, -1, 0)))
        ELSE LET g1 == SetSide(eng, g, maximizing_player)
                 moves == get_valid_moves(g1)
             IN  IF moves = <<>>
                 THEN LET score == IF maximizing_player THEN -(Unit * NoMoveScore)
                                   ELSE Unit * NoMoveScore
                      IN  [ score |-> score, game |-> g1,
                            st |-> LogNoMove(Store(st1, board_key, score, depth, "exact"),
                                             depth, maximizing_player, score) ]
                 ELSE MinimaxStored(board_key, depth, alpha, beta, maximizing_player,
                                    MinimaxLoop(eng, g1, order_moves(moves, g1), 1, depth,
                                                alpha, beta, maximizing_player,
                                                IF maximizing_player THEN -Inf ELSE Inf, st1))

RECURSIVE RootLoop(_, _, _, _, _, _, _, _)

\* (mutant) a later move with the best score so far replaces the best move.
Mut_RootStep(eng, g, moves, i, alpha, best_move, best_score, r) ==
    IF r.score >= best_score
    THEN RootLoop(eng, g, moves, i + 1, Max(alpha, r.score), moves[i], r.score,
                  LogRoot(r.st, moves[i], r.score))
    ELSE RootLoop(eng, g, moves, i + 1, Max(alpha, best_score), best_move, best_score,
                  LogRoot(r.st, moves[i], r.score))

\* The rest of one turn of the loop of get_best_move, minimax having returned r.
RootStep(eng, g, moves, i, alpha, best_move, best_score, r) ==
    IF r.score > best_score
    THEN RootLoop(eng, g, moves, i + 1, Max(alpha, r.score), moves[i], r.score,
                  LogRoot(r.st, moves[i], r.score))
    ELSE RootLoop(eng, g, moves, i + 1, Max(alpha, best_score), best_move, best_score,
                  LogRoot(r.st, moves[i], r.score))

\* The loop of get_best_move over ordered_moves from index i.
RootLoop(eng, g, moves, i, alpha, best_move, best_score, st) ==
    IF i > Len(moves)
    THEN [ move |-> best_move, score |-> best_score, game |-> g, st |-> st ]
    ELSE LET ac == ApplyOnCopy(g, moves[i])
         IN  RootStep(eng, ac.parent, moves, i, alpha, best_move, best_score,
                      MinimaxCall(eng, ac.parent, ac.child, eng.max_depth,
                                  Max(0, eng.max_depth - 1
                                           + get_search_extension(moves[i], ac.child)),
                                  alpha, Inf, FALSE, st))

\* None
NoMove == <<>>

\* (mutant) the table of the previous decision is kept.
Mut_reset_search_state(st) == [ st EXCEPT !.nodes = 0 ]

\* self.nodes_evaluated = 0; self.transposition_table.clear()
reset_search_state(st) == [ st EXCEPT !.nodes = 0, !.tt = << >> ]

\* (mutant) the forced-move shortcut tests len(moves) <= 1 before the empty
\* test's return value is chosen: a single legal move yields None.
Mut_get_best_move(eng, g, st) ==
    LET st0 == reset_search_state(st)
        moves == get_valid_moves(g)
    IN  IF Len(moves) <= 1
        THEN [ move |-> NoMove, score |-> -Inf, game |-> g, st |-> st0 ]
        ELSE RootLoop(eng, g, order_moves(moves, g), 1, -Inf, moves[1], -Inf, st0)

\* (mutant) the search state is reset once the root is known to have
\* several moves.
Mut_late_get_best_move(eng, g, st) ==
    LET st0 == LogTable(st)
        moves == get_valid_moves(g)
    IN  IF moves = <<>>
        THEN [ move |-> NoMove, score |-> -Inf, game |-> g, st |-> st0 ]
        ELSE IF Len(moves) = 1
        THEN [ move |-> moves[1], score |-> -Inf, game |-> g, st |-> st0 ]
        ELSE RootLoop(eng, g, order_moves(moves, g), 1, -Inf, moves[1], -Inf,
                      reset_search_state(st0))

\* get_best_move(game): [move, score, game, st], with the caller's game object
\* and the engine's search state as the call leaves them.
get_best_move(eng, g, st) ==
    LET st0 == LogTable(reset_search_state(st))
        moves == get_valid_moves(g)
    IN  IF moves = <<>>
        THEN [ move |-> NoMove, score |-> -Inf, game |-> g, st |-> st0 ]
        ELSE IF Len(moves) = 1
        THEN [ move |-> moves[1], score |-> -Inf, game |-> g, st |-> st0 ]
        ELSE RootLoop(eng, g, order_moves(moves, g), 1, -Inf, moves[1], -Inf, st0)

\* ------------------------------------------------------------------------
\* States the driver can be in

DarkCells == { x \in Cells : (x[1] + x[2]) % 2 = 1 }

\* A man never stands on its promotion row.
CanStand(x, v) == ~(v = 1 /\ x[1] = BoardSize - 1) /\ ~(v = -1 /\ x[1] = 0)

Near(a, b) == Abs(a[1] - b[1]) <= EndgameSpread /\ Abs(a[2] - b[2]) <= EndgameSpread

\* Late endgames with one piece a side, one move before the move cap.
Endgames ==
    { [ board |-> [ EmptyBoard EXCEPT ![a] = va, ![b] = vb ],
        current_player |-> p,
        move_count |-> MoveCap - 1 ] :
      <<a, va, b, vb, p>> \in
        { t \in DarkCells \X {1, 2} \X DarkCells \X {-1, -2} \X {1, -1} :
            t[1] # t[3] /\ Near(t[1], t[3])
            /\ CanStand(t[1], t[2]) /\ CanStand(t[3], t[4]) } }

NoEngine == [ max_depth |-> 0, player |-> 0, tt_on |-> TRUE,
              transposition_table |-> << >>, nodes_evaluated |-> 0 ]

Init ==
    /\ game \in {reset} \cup Endgames
    /\ engine = NoEngine
    /\ random = [ seed |-> 0, pos |-> 0 ]
    /\ last = [ op |-> "new", pre |-> game, move |-> NoMove ]

\* The plies the model plays on from a start position.
InPlay(g) ==
    \/ g.move_count < MaxPlies
    \/ g.move_count >= MoveCap - 1 /\ g.move_count < MoveCap - 1 + MaxEndPlies

\* One legal move applied to the game object (game.make_move(move)).
MakeMove ==
    /\ InPlay(game)
    /\ LET moves == get_valid_moves(game)
       IN  \E i \in 1 .. Len(moves) :
             /\ game' = make_move(game, moves[i])
             /\ last' = [ op |-> "make_move", pre |-> game, move |-> moves[i] ]
    /\ UNCHANGED <<engine, random>>

Next == MakeMove

Spec == Init /\ [][Next]_vars

\* A game from the start position: game = ThaiCheckersGame().
InitOpening ==
    /\ game = reset
    /\ engine = NoEngine
    /\ random = [ seed |-> 0, pos |-> 0 ]
    /\ last = [ op |-> "new", pre |-> game, move |-> NoMove ]

SpecOpening == InitOpening /\ [][Next]_vars

\* A game in its last moves.
InitEndgame ==
    /\ game \in Endgames
    /\ engine = NoEngine
    /\ random = [ seed |-> 0, pos |-> 0 ]
    /\ last = [ op |-> "new", pre |-> game, move |-> NoMove ]

SpecEndgame == InitEndgame /\ [][Next]_vars

\* ------------------------------------------------------------------------
\* Searches on the driver's game

\* A board from a set of <<cell, piece>> pairs.
Place(pieces) ==
    [ x \in Cells |-> IF \E q \in pieces : q[1] = x
                      THEN (CHOOSE q \in pieces : q[1] = x)[2] ELSE 0 ]

\* Endgame positions: a forced capture of the last piece, a men-and-kings
\* position with one capture, a position where both sides have captures
\* and recaptures, and one where a king's move leaves the last man of the
\* other side without a move.
SearchBoards ==
    { Place({ << <<2,1>>, 1 >>, << <<3,2>>, -1 >> }),
      Place({ << <<1,2>>, 2 >>, << <<1,0>>, -1 >> }),
      Place({ << <<3,2>>, 1 >>, << <<2,5>>, 2 >>, << <<4,3>>, -1 >>, << <<6,5>>, -2 >> }),
      Place({ << <<0,3>>, 1 >>, << <<3,4>>, 2 >>, << <<2,5>>, -2 >>,
              << <<4,5>>, -1 >>, << <<5,6>>, -2 >>, << <<6,7>>, -1 >> }) }

\* The boards with one piece a side, the two on diagonally adjacent squares.
DuelBoards ==
    { [ EmptyBoard EXCEPT ![t[1]] = t[2], ![t[3]] = t[4] ] :
        t \in { u \in DarkCells \X {1, 2} \X DarkCells \X {-1, -2} :
                  /\ Abs(u[1][1] - u[3][1]) = 1
                  /\ Abs(u[1][2] - u[3][2]) = 1
                  /\ CanStand(u[1], u[2]) /\ CanStand(u[3], u[4]) } }

SearchEndgames ==
    { [ board |-> b, current_player |-> p, move_count |-> MoveCap - SearchLead ] :
        b \in SearchBoards, p \in {1, -1} }

\* A kings' endgame searched one ply deeper than the others.
DeepBoards ==
    { Place({ << <<0,5>>, 1 >>, << <<3,2>>, 2 >>, << <<4,3>>, 2 >>, << <<4,7>>, -2 >> }) }

DeepEndgames ==
    { [ board |-> b, current_player |-> p, move_count |-> MoveCap - SearchLead ] :
        b \in DeepBoards, p \in {1, -1} }

\* Middle-game positions far from the move cap: one with an exchange of
\* four captures, one where quiescence skips some captures and searches
\* others.
MidBoards ==
    { Place({ << <<0,7>>, 1 >>, << <<2,1>>, 1 >>, << <<6,1>>, 1 >>, << <<7,4>>, 2 >>,
              << <<7,6>>, 2 >>, << <<2,7>>, -1 >>, << <<4,1>>, -1 >>, << <<5,2>>, -1 >>,
              << <<6,5>>, -1 >>, << <<7,0>>, -1 >> }),
      Place({ << <<1,4>>, 1 >>, << <<2,3>>, 1 >>, << <<4,3>>, 2 >>, << <<5,2>>, 1 >>,
              << <<0,5>>, -2 >>, << <<1,2>>, -1 >>, << <<3,2>>, -1 >>, << <<6,1>>, -2 >> }) }

SearchMidgames ==
    { [ board |-> b, current_player |-> p, move_count |-> MoveCap - MidLead ] :
        b \in MidBoards, p \in {1, -1} }

SearchDuels ==
    { [ board |-> b, current_player |-> p, move_count |-> MoveCap - SearchLead ] :
        b \in DuelBoards, p \in {1, -1} }

\* Games already ended by the move cap, with legal moves on the board.
SearchFinished ==
    { [ board |-> b, current_player |-> p, move_count |-> MoveCap + 1 ] :
        b \in DeepBoards, p \in {1, -1} }

\* MinimaxAIQuiescence(depth, player)
NewEngine(depth, player, tt_on) ==
    [ max_depth |-> depth, player |-> player, tt_on |-> tt_on,
      transposition_table |-> << >>, nodes_evaluated |-> 0 ]

InitSearch ==
    /\ \/ /\ game = reset
          /\ engine \in { NewEngine(1, p, t) : p \in {1, -1}, t \in BOOLEAN }
       \/ /\ game \in SearchEndgames
          /\ engine \in { NewEngine(d, p, t) : d \in 1 .. MaxDepth, p \in {1, -1}, t \in BOOLEAN }
       \/ /\ game \in DeepEndgames
          /\ engine = NewEngine(MaxDepth + 1, game.current_player, TRUE)
       \/ /\ game \in SearchMidgames
          /\ engine \in { NewEngine(1, game.current_player, t) : t \in BOOLEAN }
       \/ /\ game \in SearchDuels
          /\ engine = NewEngine(1, game.current_player, TRUE)
       \/ /\ game \in SearchFinished
          /\ engine = NewEngine(1, game.current_player, TRUE)
    /\ random \in { [ seed |-> s, pos |-> 0 ] : s \in 0 .. MaxSeed }
    /\ last = [ op |-> "new", pre |-> game, move |-> NoMove ]

EngineConfig(e) == [ max_depth |-> e.max_depth, player |-> e.player, tt_on |-> e.tt_on ]
SearchState(e, r) ==
    [ tt |-> e.transposition_table, nodes |-> e.nodes_evaluated, rnd |-> r, log |-> EmptyLog ]

\* What the call get_best_move leaves, r being its result. Every path of
\* get_best_move ends in a return statement (None, moves[0] or best_move) and
\* none raises: the call never fails.
Searched(r) ==
    /\ game' = r.game
    /\ engine' = [ engine EXCEPT !.transposition_table = r.st.tt,
                                 !.nodes_evaluated = r.st.nodes ]
    /\ random' = r.st.rnd
    /\ last' = [ op |-> "get_best_move", pre |-> game, move |-> r.move, rnd |-> random,
                 table |-> engine.transposition_table, log |-> r.st.log,
                 failed |-> FALSE ]

\* move = ai.get_best_move(game): on a new position, or once more on the
\* position the engine has just searched with a new table.
GetBestMove ==
    /\ \/ last.op \in {"new", "make_move"}
       \/ last.op = "get_best_move" /\ last.table = << >>
    /\ Searched(get_best_move(EngineConfig(engine), game, SearchState(engine, random)))

\* What the call evaluate(game, side) leaves, e being its result.
Evaluated(side, e) ==
    /\ game' = e.game
    /\ random' = [ random EXCEPT !.pos = @ + e.draws ]
    /\ last' = [ op |-> "evaluate", pre |-> game, move |-> NoMove,
                 side |-> side, score |-> e.score, draws |-> e.draws,
                 rnd |-> random ]

\* EvaluationFunction.evaluate(game, side)
Evaluate ==
    /\ last.op \in {"new", "make_move"}
    /\ \E side \in {1, -1} : Evaluated(side, evaluate(game, side, JitterAt(random)))
    /\ UNCHANGED engine

\* The searched positions the model plays on from.
InSearchPlay(g) ==
    \/ g.move_count < MaxSearchPlies
    \/ /\ g.move_count >= MoveCap - SearchLead
       /\ g.move_count < MoveCap - SearchLead + MaxSearchPlies

\* if move: game.make_move(move)
PlayBest ==
    /\ last.op = "get_best_move"
    /\ last.move # NoMove
    /\ InSearchPlay(game)
    /\ game' = make_move(game, last.move)
    /\ last' = [ op |-> "make_move", pre |-> game, move |-> last.move ]
    /\ UNCHANGED <<engine, random>>

NextSearch == GetBestMove \/ Evaluate \/ PlayBest

SpecSearch == InitSearch /\ [][NextSearch]_vars

\* C1. Mandatory capture: when the side to move has a capture, get_valid_moves
\* returns exactly its captures (each once) and no quiet move; when it has
\* none, get_valid_moves returns exactly its quiet moves.
C1_MandatoryCapture ==
    LET moves == get_valid_moves(game)
        captures == RuleCaptures(game)
    IN  /\ Cardinality(Range(moves)) = Len(moves)
        /\ IF captures # {}
           THEN Range(moves) = captures
           ELSE Range(moves) = RuleQuiets(game)

\* A position reached by play in which captures and quiet moves both exist.
C1_Witness ==
    /\ last.op = "make_move"
    /\ RuleCaptures(game) # {}
    /\ RuleQuiets(game) # {}
    /\ Range(get_valid_moves(game)) = RuleCaptures(game)

\* C2. Legality: every move of get_valid_moves starts on a piece of the side
\* to move, ends on an empty on-board cell, is a one-step diagonal move or a
\* two-step diagonal jump over an opposing piece, and a man only moves toward
\* the other side (rows up for player 1, down for player -1).
C2_Legality ==
    \A move \in Range(get_valid_moves(game)) :
      LET src == move[1]
          dst == move[2]
          dr == dst[1] - src[1]
          dc == dst[2] - src[2]
          v == game.board[src]
      IN  /\ src \in Cells /\ dst \in Cells
          /\ v * game.current_player > 0
          /\ game.board[dst] = 0
          /\ Abs(dr) = Abs(dc) /\ Abs(dr) \in {1, 2}
          /\ Abs(dr) = 2 => game.board[MidCell(move)] * game.current_player < 0
          /\ Abs(v) = 1 => dr * game.current_player > 0

\* After a move, a king of player 1 may jump backward.
C2_Witness ==
    /\ last.op = "make_move"
    /\ \E move \in Range(get_valid_moves(game)) :
         /\ game.board[move[1]] = 2
         /\ move[2][1] - move[1][1] = -2

\* C3. Move conservation: make_move of a legal move keeps the mover's piece
\* count; a quiet move keeps the opponent's count and a capture lowers it by
\* exactly one, so the total never grows.
C3_MoveConservation ==
    last.op = "make_move" =>
      LET mover == last.pre.current_player
          lost == IF IsJump(last.move) THEN 1 ELSE 0
      IN  /\ CountPieces(game.board, mover) = CountPieces(last.pre.board, mover)
          /\ CountPieces(game.board, -mover) = CountPieces(last.pre.board, -mover) - lost
          /\ TotalPieces(game.board) <= TotalPieces(last.pre.board)

\* A capture was just applied with several pieces left on each side.
C3_Witness ==
    /\ last.op = "make_move"
    /\ IsJump(last.move)
    /\ CountPieces(game.board, game.current_player) = BoardSize - 1

PromotionRow(side) == IF side = 1 THEN BoardSize - 1 ELSE 0

\* C4. Promotion: no man stands on its promotion row; make_move turns the
\* moved man into a king exactly when it lands on that row (by a quiet move
\* or a capture), leaves every other piece's kind alone, and never turns a
\* king into a man.
C4_Promotion ==
    /\ \A x \in Cells : Abs(game.board[x]) = 1 => x[1] # PromotionRow(game.board[x])
    /\ last.op = "make_move" =>
         LET src == last.move[1]
             dst == last.move[2]
             v == last.pre.board[src]
         IN  /\ game.board[dst] =
                  IF Abs(v) = 1 /\ dst[1] = PromotionRow(v) THEN 2 * v ELSE v
             /\ \A x \in Cells \ {src, dst} :
                  game.board[x] \in {last.pre.board[x], 0}

\* A man has just been promoted by a capture.
C4_Witness ==
    /\ last.op = "make_move"
    /\ IsJump(last.move)
    /\ Abs(last.pre.board[last.move[1]]) = 1
    /\ Abs(game.board[last.move[2]]) = 2

HasLegalMove(g) == RuleCaptures(g) \cup RuleQuiets(g) # {}

\* C5. Terminal consistency: is_game_over is true exactly when the side to
\* move has no legal move, or a side has no piece, or the move counter is
\* strictly above 100 (so a counter of exactly 100 alone does not end it).
C5_TerminalConsistency ==
    is_game_over(game) <=>
      \/ ~HasLegalMove(game)
      \/ CountPieces(game.board, 1) = 0
      \/ CountPieces(game.board, -1) = 0
      \/ game.move_count > MoveCap

\* Counter exactly 100, both sides have pieces and a move: not terminal.
C5_Witness ==
    /\ game.move_count = MoveCap
    /\ CountPieces(game.board, 1) > 0
    /\ CountPieces(game.board, -1) > 0
    /\ HasLegalMove(game)
    /\ ~is_game_over(game)

\* C6. Winner: get_winner is the other side when a side has no piece (and
\* the game is then over); otherwise the side not to move when the side to
\* move has no legal move; otherwise 0, also when only the counter ended it.
C6_Winner ==
    /\ CountPieces(game.board, 1) = 0 /\ CountPieces(game.board, -1) > 0
         => get_winner(game) = -1 /\ is_game_over(game)
    /\ CountPieces(game.board, -1) = 0 /\ CountPieces(game.board, 1) > 0
         => get_winner(game) = 1 /\ is_game_over(game)
    /\ CountPieces(game.board, 1) > 0 /\ CountPieces(game.board, -1) > 0
         => get_winner(game) = IF HasLegalMove(game) THEN 0 ELSE -game.current_player

\* Both sides have a piece and the side to move is blocked.
C6_Witness ==
    /\ last.op = "make_move"
    /\ CountPieces(game.board, 1) > 0
    /\ CountPieces(game.board, -1) > 0
    /\ ~HasLegalMove(game)
    /\ get_winner(game) = -game.current_player

\* ------------------------------------------------------------------------
\* The search and the evaluator as their callers see them

\* C7 (legal result): the move get_best_move returns is one of the valid moves
\* of the position it was called on whenever there is one, it is None exactly
\* when there is none, and from the initial position at depth 1 it is a quiet
\* (non-jumping) move.
C7_LegalResult ==
    last.op = "get_best_move" =>
        /\ get_valid_moves(last.pre) # <<>> => last.move \in Range(get_valid_moves(last.pre))
        /\ last.move = NoMove <=> get_valid_moves(last.pre) = <<>>
        /\ last.pre = reset /\ engine.max_depth = 1 =>
              last.move \in RuleQuiets(reset) /\ ~IsJump(last.move)

\* A depth-1 search of the initial position has looked at the replies and has
\* returned an opening move.
C7_Witness ==
    /\ last.op = "get_best_move"
    /\ last.pre = reset
    /\ engine.max_depth = 1
    /\ engine.nodes_evaluated > Len(get_valid_moves(reset))
    /\ last.move \in Range(get_valid_moves(reset))

\* C8 (caller state untouched): when get_best_move returns, the game object it
\* was called on has the board, the side to move and the move counter it had
\* before the call: the moves and the assignments of the side to move made by
\* minimax and quiescence went to copies.
C8_CallerUntouched ==
    last.op = "get_best_move" =>
        /\ game.board = last.pre.board
        /\ game.current_player = last.pre.current_player
        /\ game.move_count = last.pre.move_count

\* A search that went below the root for an engine playing the side that is
\* not to move: its nodes made moves on copies and set the side to move.
C8_Witness ==
    /\ last.op = "get_best_move"
    /\ engine.nodes_evaluated > 2 * Len(get_valid_moves(last.pre))
    /\ Len(get_valid_moves(last.pre)) > 1
    /\ engine.player # last.pre.current_player
    /\ game = last.pre

\* C9 (evaluation restores the side to move): when evaluate(state, side)
\* returns, the state's side to move, board and move counter are the ones at
\* entry, for a finished game (early return) and for a game in play (the side
\* to move is set to the opponent of side for the threat term).
C9_EvaluateRestores ==
    last.op = "evaluate" =>
        /\ game.current_player = last.pre.current_player
        /\ game.board = last.pre.board
        /\ game.move_count = last.pre.move_count

\* evaluate was called for the side to move of a game in play, so the threat
\* term changed the side to move, and a piece of that side was under attack.
C9_Witness ==
    /\ last.op = "evaluate"
    /\ ~is_game_over(last.pre)
    /\ last.side = last.pre.current_player
    /\ ThreatCount(SetSide([ player |-> last.side ], last.pre, FALSE), last.side) > 0
    /\ game = last.pre

\* ------------------------------------------------------------------------
\* The full-width search the pruned one is compared with: every move of every
\* node is searched with no bounds, every capture of the quiescence search is
\* followed, the evaluation has no random term, no table is kept.  Depths,
\* extensions, move order and the strict "score > best_score" of the root are
\* those of the engine.

SetMax(S) == CHOOSE x \in S : \A y \in S : y <= x
SetMin(S) == CHOOSE x \in S : \A y \in S : x <= y
Best(maximizing_player, S) == IF maximizing_player THEN SetMax(S) ELSE SetMin(S)

StaticScore(eng, g) == evaluate(g, eng.player, 0).score

RECURSIVE FullQuiescence(_, _, _, _)
RECURSIVE FullMinimax(_, _, _, _)

\* The best of the stand-pat score and the values of all the captures.
FullCaptures(eng, g, moves, maximizing_player, q_depth, stand_pat) ==
    Best(maximizing_player,
         { stand_pat } \cup
         { FullQuiescence(eng, make_move(g, m), ~maximizing_player, q_depth + 1) :
             m \in Range(moves) })

FullQuiescence(eng, g, maximizing_player, q_depth) ==
    IF q_depth >= max_quiescence_depth THEN StaticScore(eng, g)
    ELSE FullCaptures(eng, SetSide(eng, g, maximizing_player),
                      filter_capture_moves(get_valid_moves(SetSide(eng, g, maximizing_player))),
                      maximizing_player, q_depth, StaticScore(eng, g))

\* The value of the position the move leads to, searched to depth.
FullChild(eng, child, move, depth, maximizing_player) ==
    FullMinimax(eng, child, Max(0, depth - 1 + get_search_extension(move, child)),
                ~maximizing_player)

\* The best of the values of all the moves.
FullMoves(eng, g, moves, depth, maximizing_player) ==
    IF moves = <<>>
    THEN IF maximizing_player THEN -(Unit * NoMoveScore) ELSE Unit * NoMoveScore
    ELSE Best(maximizing_player,
              { FullChild(eng, make_move(g, m), m, depth, maximizing_player) :
                  m \in Range(moves) })

FullMinimax(eng, g, depth, maximizing_player) ==
    IF is_game_over(g) THEN StaticScore(eng, g)
    ELSE IF depth = 0 THEN FullQuiescence(eng, g, maximizing_player, 0)
    ELSE FullMoves(eng, SetSide(eng, g, maximizing_player),
                   get_valid_moves(SetSide(eng, g, maximizing_player)),
                   depth, maximizing_player)

\* The first of the ordered moves with the largest value.
FullChoice(eng, g, moves) ==
    IF moves = <<>> THEN NoMove
    ELSE IF Len(moves) = 1 THEN moves[1]
    ELSE moves[FirstMax([ i \in 1 .. Len(moves) |->
                            FullChild(eng, make_move(g, moves[i]), moves[i],
                                      eng.max_depth, TRUE) ])]

FullBestMove(eng, g) ==
    IF Len(get_valid_moves(g)) <= 1 THEN FullChoice(eng, g, get_valid_moves(g))
    ELSE FullChoice(eng, g, order_moves(get_valid_moves(g), g))

\* C10 (alpha-beta correctness): with the random term of the evaluation the
\* constant 0 and no lookup of the transposition table succeeding, the move
\* get_best_move returns is the move of the full-width search of the same
\* position at the same depth.
C10_AlphaBetaCorrectness ==
    last.op = "get_best_move" /\ ~engine.tt_on /\ last.rnd.seed = 0 =>
        last.move = FullBestMove(EngineConfig(engine), last.pre)

\* ------------------------------------------------------------------------
\* The transposition table

\* The engine's search with every lookup of the table missing, from a new
\* search state with the random source as it was.
Tableless(eng) == [ eng EXCEPT !.tt_on = FALSE ]
FreshState(rnd) == [ tt |-> << >>, nodes |-> 0, rnd |-> rnd, log |-> EmptyLog ]

\* C11 (transposition soundness): with the random term of the evaluation the
\* constant 0, the move get_best_move returns with the table in use is the
\* move the same search returns when every lookup of the table misses.
C11_TranspositionSoundness ==
    last.op = "get_best_move" /\ engine.tt_on /\ last.rnd.seed = 0 =>
        last.move = get_best_move(Tableless(EngineConfig(engine)), last.pre,
                                  FreshState(last.rnd)).move

\* ------------------------------------------------------------------------
\* The calls a search makes

\* C12 (quiescence boundedness): quiescence_search is entered from minimax
\* with q_depth 0 and from itself with q_depth one more than its own, q_depth
\* never exceeds max_quiescence_depth, and a call at the cap generates no
\* move and returns the evaluation of its position (the static score up to
\* the random term, which is within 2 points).
C12_QuiescenceBounded ==
    last.op = "get_best_move" =>
        /\ \A c \in last.log.qcalls :
              /\ c[2] <= max_quiescence_depth
              /\ IF c[1] = -1 THEN c[2] = 0 ELSE c[2] = c[1] + 1
        /\ \A d \in last.log.qmoves : d < max_quiescence_depth
        /\ \A f \in last.log.qleaf :
              /\ f[1] = max_quiescence_depth
              /\ Abs(f[3] - StaticScore(EngineConfig(engine), f[2])) <= 2 * Unit
              /\ last.rnd.seed = 0 => f[3] = StaticScore(EngineConfig(engine), f[2])

\* A chain of captures reached the cap: quiescence_search was called with
\* q_depth 4 and returned there.
C12_Witness ==
    /\ last.op = "get_best_move"
    /\ << max_quiescence_depth - 1, max_quiescence_depth >> \in last.log.qcalls
    /\ \E f \in last.log.qleaf : ~is_game_over(f[2])

\* ------------------------------------------------------------------------
\* C13: every search returns, and along every path of calls of minimax the
\* remaining depth never increases and never goes below 0, while each call
\* is made on a position one move later than its caller's and no position
\* past the move cap makes a call. Each edge of the call log is
\* << caller's depth, callee's depth, caller's move_count, callee's >>.
C13_SearchTermination ==
    last.op = "get_best_move" =>
        \A c \in last.log.mcalls :
            /\ c[1] >= 1
            /\ 0 <= c[2] /\ c[2] <= c[1]
            /\ c[4] = c[3] + 1
            /\ c[3] <= MoveCap \/ c[3] = last.pre.move_count

\* A search in which an extension kept the remaining depth, one call reached
\* depth 0, and one path was cut by the move cap.
C13_Witness ==
    /\ last.op = "get_best_move"
    /\ \E c \in last.log.mcalls : c[2] = c[1] /\ c[1] >= 2
    /\ \E c \in last.log.mcalls : c[2] = 0
    /\ \E c \in last.log.mcalls : c[4] = MoveCap + 1

\* ------------------------------------------------------------------------
\* Calls outside the contract: make_move with an empty source cell

InitMisuse ==
    /\ game = reset
    /\ engine = NoEngine
    /\ random = [ seed |-> 0, pos |-> 0 ]
    /\ last = [ op |-> "new", pre |-> game, move |-> NoMove ]

\* A legal move of the game loop, while no invalid call has been made.
MakeLegalMove ==
    /\ last.op # "make_move_invalid"
    /\ game.move_count < MaxMisusePlies
    /\ MakeMove

\* The moves of one or two squares along a diagonal from an empty cell.
EmptySourceMoves(g) ==
    { << x, <<x[1] + k * d[1], x[2] + k * d[2]>> >> :
        <<x, d, k>> \in { t \in Cells \X ({-1, 1} \X {-1, 1}) \X {1, 2} :
                            /\ g.board[t[1]] = 0
                            /\ OnBoard(t[1][1] + t[3] * t[2][1],
                                       t[1][2] + t[3] * t[2][2]) } }

\* game.make_move(move) with no piece on the source cell. The body of
\* make_move has no raise and no return value: the call completes and the
\* object holds what the assignments of the body leave.
MakeInvalidMove ==
    /\ last.op # "make_move_invalid"
    /\ \E move \in EmptySourceMoves(game) :
          /\ game' = make_move(game, move)
          /\ last' = [ op |-> "make_move_invalid", pre |-> game, move |-> move,
                       failed |-> FALSE ]
    /\ UNCHANGED <<engine, random>>

NextMisuse == MakeLegalMove \/ MakeInvalidMove

SpecMisuse == InitMisuse /\ [][NextMisuse]_vars

\* C14: make_move called with a move whose source cell is empty fails and
\* leaves the board, the side to move and the move counter as they were.
C14_InvalidMoveRejected ==
    last.op = "make_move_invalid" =>
        /\ last.failed
        /\ game.board = last.pre.board
        /\ game.current_player = last.pre.current_player
        /\ game.move_count = last.pre.move_count

\* ------------------------------------------------------------------------
\* C15: get_best_move called on a finished game (no legal move, a side with
\* no piece, or the move counter above the cap) fails: it returns neither a
\* move nor a default value.
C15_FinishedGameIsError ==
    last.op = "get_best_move" /\ is_game_over(last.pre) => last.failed

\* ------------------------------------------------------------------------
\* C16: with the same jitter values, get_best_move on equal states with
\* engines of equal depth and side returns the same move whatever calls of
\* get_best_move were made on the engine before: the move returned by an
\* engine that holds the entries of an earlier search is the move of a newly
\* built engine reading the same jitter values.
C16_DeterminismUpToJitter ==
    last.op = "get_best_move" /\ last.table # << >> =>
        last.move = get_best_move(EngineConfig(engine), last.pre, FreshState(last.rnd)).move

\* A search among several moves by an engine whose table held the entries of
\* an earlier search.
C16_Witness ==
    /\ last.op = "get_best_move"
    /\ last.table # << >>
    /\ Len(get_valid_moves(last.pre)) > 1

\* ------------------------------------------------------------------------
\* The extension granted to a move: get_search_extension on the positions
\* a search descends through

\* Positions on which each branch of get_search_extension is taken.
ExtensionBoards ==
    { Place({ << <<1,4>>, -1 >>, << <<1,6>>, -1 >>, << <<2,5>>, 2 >>, << <<5,4>>, -1 >> }),
      Place({ << <<1,4>>, -2 >>, << <<3,2>>, 2 >>, << <<3,4>>, -2 >> }),
      Place({ << <<5,4>>, -2 >>, << <<6,1>>, -1 >>, << <<6,3>>, -1 >>, << <<7,2>>, 2 >> }),
      Place({ << <<0,3>>, 1 >>, << <<1,4>>, -1 >>, << <<2,1>>, -1 >>, << <<3,4>>, -1 >> }),
      Place({ << <<6,5>>, -2 >>, << <<6,7>>, 1 >> }),
      Place({ << <<3,6>>, -1 >>, << <<4,5>>, 1 >>, << <<5,4>>, -2 >> }),
      Place({ << <<0,7>>, 2 >>, << <<2,1>>, -1 >> }) }

ExtensionGames ==
    { [ board |-> b, current_player |-> p, move_count |-> 0 ] :
        b \in ExtensionBoards \cup SearchBoards \cup MidBoards, p \in {1, -1} }

InitExtension ==
    /\ game \in {reset} \cup ExtensionGames
    /\ engine = NoEngine
    /\ random = [ seed |-> 0, pos |-> 0 ]
    /\ last = [ op |-> "new", pre |-> game, move |-> NoMove ]

\* game_copy = game.copy(); game_copy.make_move(move);
\* extension = self.get_search_extension(move, game_copy), for one move of
\* the position; the descent goes on from game_copy.
ExtendMove ==
    /\ game.move_count < MaxExtensionPlies
    /\ LET moves == get_valid_moves(game)
       IN  \E i \in 1 .. Len(moves) :
             /\ game' = ApplyOnCopy(game, moves[i]).child
             /\ last' = [ op |-> "get_search_extension", pre |-> game,
                          move |-> moves[i], child |-> game',
                          extension |-> get_search_extension(moves[i], game') ]
    /\ UNCHANGED <<engine, random>>

NextExtension == ExtendMove

SpecExtension == InitExtension /\ [][NextExtension]_vars

\* The replies the rules give the side to move: its captures when it has
\* one, else its quiet moves.
RuleReplies(g) == IF RuleCaptures(g) # {} THEN RuleCaptures(g) ELSE RuleQuiets(g)

\* After the reply, the side that moved before it can capture the replying
\* piece on the square where it landed.
CanRecapture(child, reply) ==
    \E c \in RuleCaptures(make_move(child, reply)) : MidCell(c) = reply[2]

\* C17 as stated: the extension is 1 exactly when the move was a capture, or
\* every reply of the opponent is a capture and at least one of them captures
\* the piece just moved; otherwise it is 0, whatever the number of replies.
C17_ExtensionAsStated ==
    last.op = "get_search_extension" =>
        LET replies == RuleReplies(last.child)
        IN  last.extension =
              IF \/ IsJump(last.move)
                 \/ /\ \A r \in replies : IsJump(r)
                    /\ \E r \in replies : IsJump(r) /\ MidCell(r) = last.move[2]
              THEN 1 ELSE 0

\* C17 (amended): the extension is 1 exactly when the move was a capture, or
\* the opponent has at most one reply, or every reply of the opponent is a
\* capture and after at least one of them the side that moved can capture
\* the replying piece where it landed; otherwise it is 0.
C17_ExtensionRule ==
    last.op = "get_search_extension" =>
        LET replies == RuleReplies(last.child)
        IN  last.extension =
              IF \/ IsJump(last.move)
                 \/ Cardinality(replies) <= 1
                 \/ /\ \A r \in replies : IsJump(r)
                    /\ \E r \in replies : CanRecapture(last.child, r)
              THEN 1 ELSE 0

\* A quiet move answered by several replies, all captures, one of which can
\* be recaptured: the extension is granted by the last clause alone.
C17_Witness ==
    /\ last.op = "get_search_extension"
    /\ ~IsJump(last.move)
    /\ Cardinality(RuleReplies(last.child)) > 1
    /\ \A r \in RuleReplies(last.child) : IsJump(r)
    /\ last.extension = 1

\* ------------------------------------------------------------------------
\* C18: the entry minimax stores after the move loop of a node is "exact" if
\* the node's best score lies strictly between the alpha and beta the node
\* was called with, "lower" if it is at least that beta and "upper" if it is
\* at most that alpha, for maximizing and minimizing nodes. Each store of
\* the log is << alpha, beta, score, type, maximizing_player >> with the
\* alpha and beta of the call.
C18_BoundClassification ==
    last.op = "get_best_move" =>
        \A s \in last.log.stores :
            /\ s[1] < s[3] /\ s[3] < s[2] => s[4] = "exact"
            /\ s[3] >= s[2] => s[4] = "lower"
            /\ s[3] <= s[1] => s[4] = "upper"

\* ------------------------------------------------------------------------
\* C19: in every sequence of get_best_move calls on one engine, the table is
\* empty when the call starts examining the moves, on the no-move and
\* single-move paths too: nothing written during one decision is there to
\* be read during a later one. On the two shortcut paths the table is still
\* empty when the call returns.
C19_PerDecisionTable ==
    last.op = "get_best_move" =>
        /\ last.log.tables = { << >> }
        /\ Len(get_valid_moves(last.pre)) <= 1 => engine.transposition_table = << >>

\* A call on a position with at most one move, made on an engine whose
\* table held the entries of an earlier search.
C19_Witness ==
    /\ last.op = "get_best_move"
    /\ last.table # << >>
    /\ Len(get_valid_moves(last.pre)) <= 1

\* ------------------------------------------------------------------------
\* C20: when the root has two or more moves, get_best_move evaluates every
\* move of the ordered list, in order and without breaking early, and
\* returns the first move whose score is strictly greater than the scores of
\* all moves before it and not less than the scores of all moves after it.
\* The root log holds << move, score >> for each call of minimax at the root.
C20_RootSelection ==
    last.op = "get_best_move" /\ Len(get_valid_moves(last.pre)) >= 2 =>
        LET root == last.log.root
            ordered_moves == order_moves(get_valid_moves(last.pre), last.pre)
        IN  /\ Len(root) = Len(ordered_moves)
            /\ \A i \in 1 .. Len(root) : root[i][1] = ordered_moves[i]
            /\ \E i \in 1 .. Len(root) :
                  /\ last.move = root[i][1]
                  /\ \A j \in 1 .. i - 1 : root[j][2] < root[i][2]
                  /\ \A j \in i + 1 .. Len(root) : root[j][2] <= root[i][2]

\* A root with several moves where a later move scores as much as the best
\* one and a move before the last scores strictly more than the last.
C20_Witness ==
    /\ last.op = "get_best_move"
    /\ Len(last.log.root) >= 3
    /\ \E i, j \in 1 .. Len(last.log.root) :
          /\ i < j
          /\ last.move = last.log.root[i][1]
          /\ last.log.root[j][2] = last.log.root[i][2]
    /\ \E i \in 1 .. Len(last.log.root) :
          last.log.root[i][2] > last.log.root[Len(last.log.root)][2]

\* ------------------------------------------------------------------------
\* C21: a quiescence call below the depth cap at a maximizing node returns
\* exactly beta if stand_pat >= beta; otherwise it returns at least stand_pat,
\* and exactly stand_pat when the side to move (the side the call has set
\* when it generates the moves) has no capture; at a
\* minimizing node it returns exactly alpha if stand_pat <= alpha, otherwise
\* at most stand_pat, and exactly stand_pat when there is no capture. No
\* quiet move is applied inside quiescence: every move applied is a jump over
\* a piece of the opponent.
C21_StandPat ==
    last.op = "get_best_move" =>
        /\ \A n \in last.log.qnodes :
              IF n[1]
              THEN IF n[4] >= n[3] THEN n[7] = n[3]
                   ELSE n[7] >= n[4] /\ (~n[6] => n[7] = n[4])
              ELSE IF n[4] <= n[2] THEN n[7] = n[2]
                   ELSE n[7] <= n[4] /\ (~n[6] => n[7] = n[4])
        /\ \A a \in last.log.qapplied : a[1] /\ a[2]

\* A search with a stand-pat cutoff where stand_pat is off the bound, a call
\* that returned more than its stand_pat after a capture, and a quiet call.
C21_Witness ==
    /\ last.op = "get_best_move"
    /\ \E n \in last.log.qnodes :
          \/ n[1] /\ n[4] > n[3]
          \/ ~n[1] /\ n[4] < n[2]
    /\ \E n \in last.log.qnodes : n[7] # n[4] /\ n[6]
    /\ \E n \in last.log.qnodes : ~n[6] /\ n[7] = n[4]
    /\ last.log.qapplied # {}

\* ------------------------------------------------------------------------
\* C22: inside quiescence a capture is skipped, neither applied nor recursed
\* into, exactly when stand_pat + captured value + 100 < alpha at a maximizing
\* node, or stand_pat - captured value - 100 > beta at a minimizing node, with
\* alpha and beta as they stand at that turn and the captured value 100 for a
\* man and 300 for a king; every other capture is searched with the
\* maximizing flag and the side to move flipped, and the loop goes on until
\* alpha >= beta or the captures are exhausted.
CapturedValue(piece) == IF Abs(piece) = 2 THEN 300 ELSE IF Abs(piece) = 1 THEN 100 ELSE 0

C22_DeltaPruning ==
    last.op = "get_best_move" =>
        /\ \A c \in last.log.qdelta :
              /\ c[4] < c[5]
              /\ c[6] <=> IF c[1]
                          THEN c[2] + Unit * CapturedValue(c[3]) + Unit * 100 < c[4]
                          ELSE c[2] - Unit * CapturedValue(c[3]) - Unit * 100 > c[5]
        /\ \A f \in last.log.qflips : f[3] = ~f[1] /\ f[4] = -f[2]
        /\ \A x \in last.log.qexits :
              IF x[1] THEN x[2] >= x[3] ELSE x[2] < x[3] /\ x[4] = x[5]

\* A search that skipped one capture and searched another, with one loop
\* ended by break and one by exhaustion.
C22_Witness ==
    /\ last.op = "get_best_move"
    /\ \E c \in last.log.qdelta : c[6]
    /\ \E c \in last.log.qdelta : ~c[6]
    /\ \E x \in last.log.qexits : x[1]
    /\ \E x \in last.log.qexits : ~x[1]

\* ------------------------------------------------------------------------
\* C23: on a finished game evaluate(state, side) is exactly 5000 when
\* get_winner is side, exactly -5000 when it is the other side and exactly 0
\* when there is no winner, with no jitter added (the random source is not
\* read), so evaluate(state, side) = -evaluate(state, other side); minimax on
\* a finished game returns this value for the engine's side and leaves the
\* table as it found it.
WinLossDraw(winner, side) ==
    IF winner = side THEN 5000 * Unit ELSE IF winner # 0 THEN -5000 * Unit ELSE 0

C23_TerminalEvaluation ==
    /\ last.op = "evaluate" /\ is_game_over(last.pre) =>
          /\ last.score = WinLossDraw(get_winner(last.pre), last.side)
          /\ last.draws = 0 /\ random = last.rnd
          /\ evaluate(last.pre, -last.side, JitterAt(last.rnd)).score = -last.score
    /\ last.op = "get_best_move" =>
          \A t \in last.log.mterm :
              t[2] = WinLossDraw(t[1], engine.player) /\ t[3]

\* evaluate of a finished game for the winning side, under a jitter source
\* that is not constant.
C23_Witness ==
    /\ last.op = "evaluate"
    /\ is_game_over(last.pre)
    /\ get_winner(last.pre) = last.side
    /\ last.rnd.seed # 0

\* ------------------------------------------------------------------------
\* C24: in a search started by get_best_move on a state whose side to move is
\* the engine's side, every minimax node that passes the terminality check
\* has a legal move: the branch returning the -10000 / +10000 sentinel is
\* never executed.
C24_NoEmptyMoveList ==
    last.op = "get_best_move" /\ engine.player = last.pre.current_player =>
        last.log.nomoves = {}

\* A search for the side to move whose minimax nodes below the root passed
\* the terminality check and generated moves, and which came to a node whose
\* side to move has pieces and no move.
C24_Witness ==
    /\ last.op = "get_best_move"
    /\ engine.player = last.pre.current_player
    /\ \E c \in last.log.mcalls : c[1] < engine.max_depth
    /\ last.log.stores # {}
    /\ \E t \in last.log.mterm : t[4]

\* C25: in a search started by get_best_move on a state whose side to move is
\* the engine's side, at every minimax and quiescence_search node the side to
\* move of the state is the engine's side when maximizing is true and the
\* opponent when it is false, so the assignment of game.current_player never
\* changes the state.
C25_SideAgreement ==
    last.op = "get_best_move" /\ engine.player = last.pre.current_player =>
        \A n \in last.log.sides :
            /\ n[3] = IF n[2] THEN engine.player ELSE -engine.player
            /\ n[4]

\* A search for the side to move with maximizing and minimizing nodes of
\* both functions.
C25_Witness ==
    /\ last.op = "get_best_move"
    /\ engine.player = last.pre.current_player
    /\ \A f \in {"minimax", "quiescence_search"}, m \in BOOLEAN :
          \E n \in last.log.sides : n[1] = f /\ n[2] = m

\* ------------------------------------------------------------------------
\* The depth-5 generator (colab_generate_improved.py)
\*
\* A SimpleBoard holds a grid of references to piece objects, each a dict
\* {'player', 'type'}. The objects live in a heap, a sequence indexed by the
\* reference; a grid cell holds a reference or 0 for None. The game record
\* is [grid, heap, current_player, moves_count]. Scores are kept in quarter
\* points (evaluate_board adds multiples of 1.5 and 0.25).

Quarter == 4
\* minimax(board, 5, ...) in play_game
PlayDepth == 5
\* max_moves = 100 in play_game
max_moves == 100

\* The searches of the model other than the ones of play_game go to this depth.
MaxImprovedDepth == 2
\* The plies play_game is followed for.
MaxImprovedPlies == 2

NoPiece == [ player |-> "none", type |-> "none" ]
NoDictMove == [ from |-> <<-1, -1>>, to |-> <<-1, -1>>, captured |-> <<>> ]

Opponent(player) == IF player = "white" THEN "black" ELSE "white"

\* SimpleBoard.get_piece
get_piece(grid, heap, x) ==
    IF x \in Cells /\ grid[x] # 0 THEN heap[grid[x]] ELSE NoPiece

\* What a reader of the board sees: the owner and type of the piece on
\* every cell.
BoardView(grid, heap) == [ x \in Cells |-> get_piece(grid, heap, x) ]

\* SimpleBoard.copy: new_board.grid = [row[:] for row in self.grid]. The rows
\* are new lists; their elements are the references of the original.
SimpleBoard_copy(grid) == [ x \in Cells |-> grid[x] ]

\* dirs in get_captures and get_normal_moves
PieceDirs(piece) ==
    IF piece.type = "king" THEN << <<-1,-1>>, <<-1,1>>, <<1,-1>>, <<1,1>> >>
    ELSE IF piece.player = "white" THEN << <<-1,-1>>, <<-1,1>> >>
    ELSE << <<1,-1>>, <<1,1>> >>

Toward(x, d, n) == << x[1] + n * d[1], x[2] + n * d[2] >>

get_captures(grid, heap, x, piece) ==
    LET CanJump(d) ==
            /\ Toward(x, d, 2) \in Cells
            /\ grid[Toward(x, d, 1)] # 0
            /\ heap[grid[Toward(x, d, 1)]].player # piece.player
            /\ grid[Toward(x, d, 2)] = 0
        jumps == SelectSeq(PieceDirs(piece), CanJump)
    IN  [ k \in 1 .. Len(jumps) |->
            [ from |-> x, to |-> Toward(x, jumps[k], 2),
              captured |-> << Toward(x, jumps[k], 1) >> ] ]

get_normal_moves(grid, heap, x, piece) ==
    LET CanStep(d) == Toward(x, d, 1) \in Cells /\ grid[Toward(x, d, 1)] = 0
        steps == SelectSeq(PieceDirs(piece), CanStep)
    IN  [ k \in 1 .. Len(steps) |->
            [ from |-> x, to |-> Toward(x, steps[k], 1), captured |-> <<>> ] ]

\* The cells holding a piece of the player, in the order of the loops over
\* r and c.
PlayerCells(grid, heap, player) ==
    LET Owned(x) == get_piece(grid, heap, x).player = player
    IN  SelectSeq(ScanOrder, Owned)

RECURSIVE ScanBoard(_, _, _, _, _, _)
\* The loops over r and c of get_valid_moves, k pieces of the player done.
ScanBoard(grid, heap, cells, k, captures, moves) ==
    IF k > Len(cells) THEN (IF captures # <<>> THEN captures ELSE moves)
    ELSE IF get_captures(grid, heap, cells[k], heap[grid[cells[k]]]) # <<>>
         THEN ScanBoard(grid, heap, cells, k + 1,
                        captures \o get_captures(grid, heap, cells[k], heap[grid[cells[k]]]),
                        moves)
    ELSE ScanBoard(grid, heap, cells, k + 1, captures,
                   moves \o get_normal_moves(grid, heap, cells[k], heap[grid[cells[k]]]))

\* get_valid_moves(board, player) of the generator
board_get_valid_moves(grid, heap, player) ==
    ScanBoard(grid, heap, PlayerCells(grid, heap, player), 1, <<>>, <<>>)

\* if piece['type'] == 'man': if white and tr == 0 or black and tr == 7:
\* piece['type'] = 'king'. The assignment is made on the piece object.
PromoteObject(heap, ref, tr) ==
    IF /\ heap[ref].type = "man"
       /\ \/ heap[ref].player = "white" /\ tr = 0
          \/ heap[ref].player = "black" /\ tr = BoardSize - 1
    THEN [ heap EXCEPT ![ref].type = "king" ]
    ELSE heap

\* make_move(board, move) of the generator: the grid of the board passed
\* and the heap after the call.
board_make_move(grid, heap, move) ==
    LET piece == grid[move.from]
        moved == [ x \in Cells |->
                     IF x = move.from THEN 0
                     ELSE IF \E k \in 1 .. Len(move.captured) : move.captured[k] = x THEN 0
                     ELSE IF x = move.to THEN piece
                     ELSE grid[x] ]
    IN  [ grid |-> moved, heap |-> PromoteObject(heap, piece, move.to[1]) ]

\* piece_value of evaluate_board, in quarter points.
BoardPieceValue(piece, x) ==
    (IF piece.type = "king" THEN 30 * Quarter ELSE 10 * Quarter)
    + 6 * (IF piece.player = "white" THEN x[1] ELSE (BoardSize - 1) - x[1])
    + (12 - Abs(7 - 2 * x[1]) - Abs(7 - 2 * x[2]))

RECURSIVE SumBoard(_, _, _, _)
\* The sum of piece_value over the cells of a player's pieces.
SumBoard(grid, heap, cells, k) ==
    IF k > Len(cells) THEN 0
    ELSE BoardPieceValue(heap[grid[cells[k]]], cells[k]) + SumBoard(grid, heap, cells, k + 1)

evaluate_board(grid, heap, player) ==
    SumBoard(grid, heap, PlayerCells(grid, heap, player), 1)
    - SumBoard(grid, heap, PlayerCells(grid, heap, Opponent(player)), 1)

RECURSIVE board_minimax(_, _, _, _, _, _, _)
RECURSIVE BoardLoop(_, _, _, _, _, _, _, _, _, _, _)

\* new_board = board.copy(); make_move(new_board, move);
\* eval_score, _ = minimax(new_board, depth-1, alpha, beta, not maximizing, player)
BoardCall(child, depth, alpha, beta, maximizing, player) ==
    board_minimax(child.grid, child.heap, depth, alpha, beta, maximizing, player)

\* One pass of the loop over the moves, r being what the recursive call
\* returned.
BoardStep(grid, moves, i, depth, alpha, beta, maximizing, player, best, best_move, r) ==
    IF maximizing
    THEN IF beta <= Max(alpha, r.score)
         THEN [ score |-> Max(best, r.score),
                move |-> IF r.score > best THEN moves[i] ELSE best_move,
                heap |-> r.heap ]
         ELSE BoardLoop(grid, moves, i + 1, depth, Max(alpha, r.score), beta, maximizing, player,
                        Max(best, r.score),
                        IF r.score > best THEN moves[i] ELSE best_move, r.heap)
    ELSE IF Min(beta, r.score) <= alpha
         THEN [ score |-> Min(best, r.score),
                move |-> IF r.score < best THEN moves[i] ELSE best_move,
                heap |-> r.heap ]
         ELSE BoardLoop(grid, moves, i + 1, depth, alpha, Min(beta, r.score), maximizing, player,
                        Min(best, r.score),
                        IF r.score < best THEN moves[i] ELSE best_move, r.heap)

BoardLoop(grid, moves, i, depth, alpha, beta, maximizing, player, best, best_move, heap) ==
    IF i > Len(moves) THEN [ score |-> best, move |-> best_move, heap |-> heap ]
    ELSE BoardStep(grid, moves, i, depth, alpha, beta, maximizing, player, best, best_move,
                   BoardCall(board_make_move(SimpleBoard_copy(grid), heap, moves[i]),
                             depth - 1, alpha, beta, ~maximizing, player))

BoardNode(grid, heap, depth, alpha, beta, maximizing, player, moves) ==
    IF moves = <<>>
    THEN [ score |-> IF maximizing THEN -(Quarter * NoMoveScore) ELSE Quarter * NoMoveScore,
           move |-> NoDictMove, heap |-> heap ]
    ELSE BoardLoop(grid, moves, 1, depth, alpha, beta, maximizing, player,
                   IF maximizing THEN -Inf ELSE Inf, NoDictMove, heap)

\* minimax(board, depth, alpha, beta, maximizing, player) of the generator:
\* the score and move returned and the heap after the call.
board_minimax(grid, heap, depth, alpha, beta, maximizing, player) ==
    IF depth = 0
    THEN [ score |-> evaluate_board(grid, heap, player), move |-> NoDictMove, heap |-> heap ]
    ELSE BoardNode(grid, heap, depth, alpha, beta, maximizing, player,
                   board_get_valid_moves(grid, heap,
                                         IF maximizing THEN player ELSE Opponent(player)))

\* Positions late in a game: a white man one or two rows from its promotion
\* row and a black man close to it.
BoardGames ==
    { [ grid |-> [ EmptyBoard EXCEPT ![w] = 1, ![b] = 2 ],
        heap |-> << [ player |-> "white", type |-> "man" ],
                    [ player |-> "black", type |-> "man" ] >>,
        current_player |-> p,
        moves_count |-> 0 ] :
      <<w, b, p>> \in
        { t \in DarkCells \X DarkCells \X {"white", "black"} :
            /\ t[1] # t[2]
            /\ t[1][1] \in 1 .. 2
            /\ t[2][1] \in 1 .. (BoardSize - 2)
            /\ Near(t[1], t[2]) } }

InitBoard ==
    /\ game \in BoardGames
    /\ engine = NoEngine
    /\ random = [ seed |-> 0, pos |-> 0 ]
    /\ last = [ op |-> "new", pre |-> game, move |-> NoDictMove ]

\* new_board = board.copy(); make_move(new_board, move): what the loop of
\* minimax does with one legal move of the board it was given.
CopyAndMove ==
    /\ last.op \in {"new", "play_game"}
    /\ LET moves == board_get_valid_moves(game.grid, game.heap, game.current_player)
       IN  \E i \in 1 .. Len(moves) :
             LET new_board == board_make_move(SimpleBoard_copy(game.grid), game.heap, moves[i])
             IN  /\ game' = [ game EXCEPT !.heap = new_board.heap ]
                 /\ last' = [ op |-> "copy", pre |-> game, move |-> moves[i],
                              new_board |-> new_board.grid ]
    /\ UNCHANGED <<engine, random>>

\* minimax(board, depth, -inf, inf, True, current_player) on the board of
\* the game.
BoardSearch ==
    /\ last.op \in {"new", "play_game"}
    /\ \E depth \in 1 .. MaxImprovedDepth :
         LET r == board_minimax(game.grid, game.heap, depth, -Inf, Inf, TRUE, game.current_player)
         IN  /\ game' = [ game EXCEPT !.heap = r.heap ]
             /\ last' = [ op |-> "minimax", pre |-> game, move |-> r.move, depth |-> depth ]
    /\ UNCHANGED <<engine, random>>

\* The move play_game makes with what minimax returned.
PlayBoardMove(g, r) ==
    IF r.move = NoDictMove THEN [ g EXCEPT !.heap = r.heap ]
    ELSE [ grid |-> board_make_move(g.grid, r.heap, r.move).grid,
           heap |-> board_make_move(g.grid, r.heap, r.move).heap,
           current_player |-> Opponent(g.current_player),
           moves_count |-> g.moves_count + 1 ]

\* One pass of the loop of play_game.
PlayGame ==
    /\ last.op \in {"new", "play_game"}
    /\ game.moves_count < max_moves
    /\ game.moves_count < MaxImprovedPlies
    /\ board_get_valid_moves(game.grid, game.heap, game.current_player) # <<>>
    /\ LET r == board_minimax(game.grid, game.heap, PlayDepth, -Inf, Inf, TRUE,
                              game.current_player)
       IN  /\ game' = PlayBoardMove(game, r)
           /\ last' = [ op |-> "play_game", pre |-> game, move |-> r.move,
                        searched |-> r.heap ]
    /\ UNCHANGED <<engine, random>>

NextBoard == CopyAndMove \/ BoardSearch \/ PlayGame

SpecBoard == InitBoard /\ [][NextBoard]_vars

\* The row on which a man of the side becomes a king.
KingRow(player) == IF player = "white" THEN 0 ELSE BoardSize - 1

\* C26: SimpleBoard.copy() shares no mutable state with the original:
\* make_move on the copy leaves every cell of the original, with each
\* piece's owner and type, unchanged; minimax returns with the caller's
\* board unchanged; and no man of the game is a king before it has reached
\* its promotion row.
C26_IndependentCopies ==
    /\ last.op \in {"copy", "minimax"} =>
         BoardView(game.grid, game.heap) = BoardView(last.pre.grid, last.pre.heap)
    /\ last.op = "play_game" =>
         BoardView(last.pre.grid, last.searched) = BoardView(last.pre.grid, last.pre.heap)
    /\ \A x \in Cells :
         /\ game.grid[x] # 0
         /\ last.pre.heap[game.grid[x]].type = "man"
         /\ game.heap[game.grid[x]].type = "king"
         => x[1] = KingRow(game.heap[game.grid[x]].player)

\* ------------------------------------------------------------------------
\* The engines without table, extensions or quiescence: SimpleMinimax
\* (test_minimax.py) on the men-only game of that file, SimpleFastMinimax
\* (colab_batch_simple.py) on a ThaiCheckersGame whose code is the one of
\* colab_batch_final.py. A search returns [score, ct], ct counting the nodes
\* (self.nodes, self.nodes_evaluated) and the breaks that left moves
\* unsearched.

\* self.move_count > 20 (test_minimax.py)
TestCap == 20
\* if self.nodes_evaluated > 100000
NodeCap == 100000

\* Depths of the plain searches, values of the fixed random term and plies
\* played on.
MaxPlainDepth == 3
MaxJitter == 1
MaxPlainPlies == 1

\* (mutant) the loops stop after the first move.
Mut_Cutoff(alpha, beta) == TRUE

\* if beta <= alpha: break
Cutoff(alpha, beta) == beta <= alpha

CountPlainNode(ct) == [ ct EXCEPT !.nodes = @ + 1 ]
CountBreak(ct, i, n) == IF i < n THEN [ ct EXCEPT !.cuts = @ + 1 ] ELSE ct

\* ThaiCheckersGame.get_valid_moves of test_minimax.py: steps of men only,
\* the directions chosen by the side to move.
TestSteps(g, x) ==
    LET CanStep(d) == Toward(x, d, 1) \in Cells /\ g.board[Toward(x, d, 1)] = 0
        steps == SelectSeq(IF g.current_player = 1 THEN << <<1,1>>, <<1,-1>> >>
                           ELSE << <<-1,1>>, <<-1,-1>> >>, CanStep)
    IN  [ k \in 1 .. Len(steps) |-> << x, Toward(x, steps[k], 1) >> ]

RECURSIVE TestScan(_, _, _)
TestScan(g, cells, k) ==
    IF k > Len(cells) THEN <<>>
    ELSE TestSteps(g, cells[k]) \o TestScan(g, cells, k + 1)

test_get_valid_moves(g) ==
    LET Owned(x) == g.board[x] * g.current_player > 0
    IN  TestScan(g, SelectSeq(ScanOrder, Owned), 1)

test_make_move(g, move) ==
    [ board |-> [ g.board EXCEPT ![move[2]] = g.board[move[1]], ![move[1]] = 0 ],
      current_player |-> -g.current_player,
      move_count |-> g.move_count + 1 ]

test_is_game_over(g) == Len(test_get_valid_moves(g)) = 0 \/ g.move_count > TestCap

\* SimpleMinimax.evaluate
test_evaluate(g) ==
    100 * Cardinality({ x \in Cells : g.board[x] = 1 })
    - 100 * Cardinality({ x \in Cells : g.board[x] = -1 })

\* What a loop over the moves does with the value r of a move: max_eval /
\* min_eval, alpha / beta, if beta <= alpha: break.
PlainAfter(alpha, beta, maximizing, best, r, i, n) ==
    [ best  |-> IF maximizing THEN Max(best, r.score) ELSE Min(best, r.score),
      alpha |-> IF maximizing THEN Max(alpha, r.score) ELSE alpha,
      beta  |-> IF maximizing THEN beta ELSE Min(beta, r.score),
      break |-> IF maximizing THEN Cutoff(Max(alpha, r.score), beta)
                ELSE Cutoff(alpha, Min(beta, r.score)),
      ct    |-> IF (IF maximizing THEN Cutoff(Max(alpha, r.score), beta)
                    ELSE Cutoff(alpha, Min(beta, r.score)))
                THEN CountBreak(r.ct, i, n) ELSE r.ct ]

RECURSIVE test_minimax(_, _, _, _, _, _)
RECURSIVE TestLoop(_, _, _, _, _, _, _, _, _)

TestStep(g, moves, i, depth, maximizing, a) ==
    IF a.break THEN [ score |-> a.best, ct |-> a.ct ]
    ELSE TestLoop(g, moves, i + 1, depth, a.alpha, a.beta, maximizing, a.best, a.ct)

TestLoop(g, moves, i, depth, alpha, beta, maximizing, best, ct) ==
    IF i > Len(moves) THEN [ score |-> best, ct |-> ct ]
    ELSE TestStep(g, moves, i, depth, maximizing,
                  PlainAfter(alpha, beta, maximizing, best,
                             test_minimax(test_make_move(g, moves[i]), depth - 1,
                                          alpha, beta, ~maximizing, ct),
                             i, Len(moves)))

\* SimpleMinimax.minimax
test_minimax(g, depth, alpha, beta, maximizing, ct) ==
    IF depth = 0 \/ test_is_game_over(g)
    THEN [ score |-> test_evaluate(g), ct |-> CountPlainNode(ct) ]
    ELSE IF test_get_valid_moves(g) = <<>>
    THEN [ score |-> IF maximizing THEN -NoMoveScore ELSE NoMoveScore,
           ct |-> CountPlainNode(ct) ]
    ELSE TestLoop(g, test_get_valid_moves(g), 1, depth, alpha, beta, maximizing,
                  IF maximizing THEN -Inf ELSE Inf, CountPlainNode(ct))

RECURSIVE TestRootLoop(_, _, _, _, _, _, _, _)

\* if score > best_score: best_score = score; best_move = move;
\* alpha = max(alpha, best_score)
TestRootStep(eng, g, moves, i, best_move, best_score, r) ==
    IF r.score > best_score
    THEN TestRootLoop(eng, g, moves, i + 1, r.score, moves[i], r.score, r.ct)
    ELSE TestRootLoop(eng, g, moves, i + 1, best_score, best_move, best_score, r.ct)

TestRootLoop(eng, g, moves, i, alpha, best_move, best_score, ct) ==
    IF i > Len(moves) THEN [ move |-> best_move, ct |-> ct ]
    ELSE TestRootStep(eng, g, moves, i, best_move, best_score,
                      test_minimax(test_make_move(g, moves[i]), eng.max_depth - 1,
                                   alpha, Inf, FALSE, ct))

\* SimpleMinimax.get_best_move
test_get_best_move(eng, g, ct) ==
    IF test_get_valid_moves(g) = <<>> THEN [ move |-> NoMove, ct |-> ct ]
    ELSE TestRootLoop(eng, g, test_get_valid_moves(g), 1, -Inf,
                      test_get_valid_moves(g)[1], -Inf, ct)

\* value of one piece in SimpleFastMinimax.evaluate_position
FastPieceValue(piece, x) ==
    (IF Abs(piece) = 1
     THEN 100 + (IF piece > 0 THEN ((BoardSize - 1) - x[1]) * ((BoardSize - 1) - x[1]) * 2
                 ELSE x[1] * x[1] * 2)
     ELSE 200 - (IF x[1] \in {0, BoardSize - 1} \/ x[2] \in {0, BoardSize - 1}
                 THEN 10 ELSE 0))
    + (7 - (Abs(2 * x[1] - 7) + Abs(2 * x[2] - 7)) \div 2) * 3

RECURSIVE FastSum(_, _, _, _)
FastSum(eng, g, cells, k) ==
    IF k > Len(cells) THEN 0
    ELSE (IF g.board[cells[k]] * eng.player > 0
          THEN FastPieceValue(g.board[cells[k]], cells[k])
          ELSE -FastPieceValue(g.board[cells[k]], cells[k]))
         + FastSum(eng, g, cells, k + 1)

\* SimpleFastMinimax.evaluate_position, random.random() returning the same
\* value at every call: (random.random() - 0.5) * 4 is eng.jitter.
evaluate_position(eng, g) ==
    LET Occupied(x) == g.board[x] # 0
    IN  FastSum(eng, g, SelectSeq(ScanOrder, Occupied), 1) + eng.jitter

\* ordered_moves = captures + quiets
FastOrder(moves) ==
    LET IsCaptureMove(m) == Abs(m[1][1] - m[2][1]) > 1
        IsQuietMove(m) == Abs(m[1][1] - m[2][1]) <= 1
    IN  SelectSeq(moves, IsCaptureMove) \o SelectSeq(moves, IsQuietMove)

RECURSIVE fast_minimax(_, _, _, _, _, _, _)
RECURSIVE FastLoop(_, _, _, _, _, _, _, _, _, _)

FastStep(eng, g, moves, i, depth, maximizing, a) ==
    IF a.break THEN [ score |-> a.best, ct |-> a.ct ]
    ELSE FastLoop(eng, g, moves, i + 1, depth, a.alpha, a.beta, maximizing, a.best, a.ct)

FastLoop(eng, g, moves, i, depth, alpha, beta, maximizing, best, ct) ==
    IF i > Len(moves) THEN [ score |-> best, ct |-> ct ]
    ELSE FastStep(eng, g, moves, i, depth, maximizing,
                  PlainAfter(alpha, beta, maximizing, best,
                             fast_minimax(eng, make_move(copy(g), moves[i]), depth - 1,
                                          alpha, beta, ~maximizing, ct),
                             i, Len(moves)))

\* SimpleFastMinimax.minimax
fast_minimax(eng, g, depth, alpha, beta, maximizing, ct) ==
    IF ct.nodes + 1 > NodeCap
    THEN [ score |-> evaluate_position(eng, g), ct |-> CountPlainNode(ct) ]
    ELSE IF depth = 0 \/ is_game_over(g)
    THEN [ score |-> evaluate_position(eng, g), ct |-> CountPlainNode(ct) ]
    ELSE IF get_valid_moves(g) = <<>>
    THEN [ score |-> IF maximizing THEN -NoMoveScore ELSE NoMoveScore,
           ct |-> CountPlainNode(ct) ]
    ELSE FastLoop(eng, g, FastOrder(get_valid_moves(g)), 1, depth, alpha, beta, maximizing,
                  IF maximizing THEN -Inf ELSE Inf, CountPlainNode(ct))

RECURSIVE FastRootLoop(_, _, _, _, _, _, _, _)

\* The loop of SimpleFastMinimax.get_best_move, r being the score of move i.
FastRootStep(eng, g, moves, i, best_move, best_score, r) ==
    IF Cutoff(Max(best_score, r.score), Inf)
    THEN [ move |-> IF r.score > best_score THEN moves[i] ELSE best_move,
           ct |-> CountBreak(r.ct, i, Len(moves)) ]
    ELSE FastRootLoop(eng, g, moves, i + 1, Max(best_score, r.score),
                      IF r.score > best_score THEN moves[i] ELSE best_move,
                      Max(best_score, r.score), r.ct)

FastRootLoop(eng, g, moves, i, alpha, best_move, best_score, ct) ==
    IF i > Len(moves) THEN [ move |-> best_move, ct |-> ct ]
    ELSE FastRootStep(eng, g, moves, i, best_move, best_score,
                      fast_minimax(eng, make_move(copy(g), moves[i]), eng.max_depth - 1,
                                   alpha, Inf, FALSE, ct))

\* SimpleFastMinimax.get_best_move; self.nodes_evaluated = 0 comes first.
fast_get_best_move(eng, g) ==
    IF get_valid_moves(g) = <<>> THEN [ move |-> NoMove, ct |-> [ nodes |-> 0, cuts |-> 0 ] ]
    ELSE IF Len(get_valid_moves(g)) = 1
    THEN [ move |-> get_valid_moves(g)[1], ct |-> [ nodes |-> 0, cuts |-> 0 ] ]
    ELSE FastRootLoop(eng, g, FastOrder(get_valid_moves(g)), 1, -Inf,
                      get_valid_moves(g)[1], -Inf, [ nodes |-> 0, cuts |-> 0 ])

\* The two engines on one position each: the game and evaluation an engine
\* of the kind searches with.
PlainMoves(eng, g) ==
    IF eng.kind = "SimpleMinimax" THEN test_get_valid_moves(g) ELSE FastOrder(get_valid_moves(g))
PlainApply(eng, g, move) ==
    IF eng.kind = "SimpleMinimax" THEN test_make_move(g, move) ELSE make_move(copy(g), move)
PlainOver(eng, g) ==
    IF eng.kind = "SimpleMinimax" THEN test_is_game_over(g) ELSE is_game_over(g)
PlainLeaf(eng, g) ==
    IF eng.kind = "SimpleMinimax" THEN test_evaluate(g) ELSE evaluate_position(eng, g)

RECURSIVE PlainValue(_, _, _, _)
\* The depth-limited minimax value without pruning: every move of every
\* node is searched.
PlainValue(eng, g, depth, maximizing) ==
    IF depth = 0 \/ PlainOver(eng, g) THEN PlainLeaf(eng, g)
    ELSE IF PlainMoves(eng, g) = <<>>
    THEN (IF maximizing THEN -NoMoveScore ELSE NoMoveScore)
    ELSE Best(maximizing,
              { PlainValue(eng, PlainApply(eng, g, PlainMoves(eng, g)[i]), depth - 1, ~maximizing) :
                  i \in 1 .. Len(PlainMoves(eng, g)) })

\* The values of the moves of the root, in the engine's order.
PlainRootValues(eng, g) ==
    [ i \in 1 .. Len(PlainMoves(eng, g)) |->
        PlainValue(eng, PlainApply(eng, g, PlainMoves(eng, g)[i]), eng.max_depth - 1, FALSE) ]

FirstMaximum(values) ==
    CHOOSE i \in 1 .. Len(values) :
        /\ \A j \in 1 .. Len(values) : values[j] <= values[i]
        /\ \A j \in 1 .. (i - 1) : values[j] < values[i]

\* The first move, in the engine's order, attaining the maximum of the
\* unpruned values.
PlainBest(eng, g) ==
    IF PlainMoves(eng, g) = <<>> THEN NoMove
    ELSE PlainMoves(eng, g)[FirstMaximum(PlainRootValues(eng, g))]

\* Boards of men only, for the game of test_minimax.py.
MenBoards ==
    { reset.board,
      Place({ << <<1,2>>, 1 >>, << <<2,5>>, 1 >>, << <<5,2>>, -1 >>, << <<6,5>>, -1 >> }),
      Place({ << <<5,0>>, 1 >>, << <<6,3>>, 1 >>, << <<3,4>>, -1 >>, << <<6,1>>, -1 >> }) }

InitPlain ==
    /\ \/ /\ game \in { [ board |-> b, current_player |-> p, move_count |-> n ] :
                          b \in MenBoards, p \in {1, -1}, n \in {0, TestCap - 1} }
          /\ engine \in { [ kind |-> "SimpleMinimax", max_depth |-> d, nodes |-> 0 ] :
                            d \in 1 .. MaxPlainDepth }
       \/ /\ game \in SearchEndgames \cup SearchMidgames
          /\ engine \in { [ kind |-> "SimpleFastMinimax", max_depth |-> d, player |-> p,
                            jitter |-> j, nodes_evaluated |-> 0 ] :
                            d \in 1 .. MaxPlainDepth, p \in {1, -1},
                            j \in {-MaxJitter, 0, MaxJitter} }
    /\ random = [ seed |-> 0, pos |-> 0 ]
    /\ last = [ op |-> "new", pre |-> game, move |-> NoMove ]

\* ai.get_best_move(game) of test_minimax.py; self.nodes is never reset.
TestGetBestMove ==
    /\ engine.kind = "SimpleMinimax"
    /\ last.op \in {"new", "make_move"}
    /\ LET r == test_get_best_move(engine, game, [ nodes |-> engine.nodes, cuts |-> 0 ])
       IN  /\ engine' = [ engine EXCEPT !.nodes = r.ct.nodes ]
           /\ last' = [ op |-> "get_best_move", pre |-> game, move |-> r.move,
                        nodes |-> r.ct.nodes - engine.nodes, cuts |-> r.ct.cuts ]
    /\ UNCHANGED <<game, random>>

\* SimpleFastMinimax.get_best_move(game)
FastGetBestMove ==
    /\ engine.kind = "SimpleFastMinimax"
    /\ last.op \in {"new", "make_move"}
    /\ LET r == fast_get_best_move(engine, game)
       IN  /\ engine' = [ engine EXCEPT !.nodes_evaluated = r.ct.nodes ]
           /\ last' = [ op |-> "get_best_move", pre |-> game, move |-> r.move,
                        nodes |-> r.ct.nodes, cuts |-> r.ct.cuts ]
    /\ UNCHANGED <<game, random>>

\* The move counts the plain searches start from, and the positions the
\* model plays on from.
PlainStarts == {0, TestCap - 1, MoveCap - SearchLead, MoveCap - MidLead}
InPlainPlay(g) == \E n \in PlainStarts : g.move_count - n \in 0 .. (MaxPlainPlies - 1)

\* if move: game.make_move(move)
PlainPlay ==
    /\ last.op = "get_best_move"
    /\ last.move # NoMove
    /\ InPlainPlay(game)
    /\ game' = IF engine.kind = "SimpleMinimax" THEN test_make_move(game, last.move)
               ELSE make_move(game, last.move)
    /\ last' = [ op |-> "make_move", pre |-> game, move |-> last.move ]
    /\ UNCHANGED <<engine, random>>

NextPlain == TestGetBestMove \/ FastGetBestMove \/ PlainPlay

SpecPlain == InitPlain /\ [][NextPlain]_vars

\* C27: for SimpleMinimax, and for SimpleFastMinimax with the random term
\* fixed and below its node cap, the move get_best_move returns is the first
\* move, in the engine's move order, attaining the maximum value of the
\* unpruned depth-limited minimax with the same evaluation.
C27_AlphaBetaIsMinimax ==
    last.op = "get_best_move" /\ last.nodes <= NodeCap =>
        last.move = PlainBest(engine, last.pre)

\* A search of SimpleFastMinimax that left moves unsearched and returned a
\* move other than the first of its list, and whose root moves differ in
\* value.
C27_Witness ==
    /\ last.op = "get_best_move"
    /\ engine.kind = "SimpleFastMinimax"
    /\ last.cuts > 0
    /\ last.move # PlainMoves(engine, last.pre)[1]
    /\ last.move = PlainBest(engine, last.pre)

\* ------------------------------------------------------------------------
\* The game loop of generate_single_batch

\* while not game.is_game_over() and game.move_count < 60
LoopCap == 60

\* The plies the loop is followed for from the start position, and the
\* distance from the loop's limit of the late positions it is entered at.
MaxLoopPlies == 2
LoopLead == 3

\* ai1 = MinimaxAIQuiescence(depth=depth1, player=1);
\* ai2 = MinimaxAIQuiescence(depth=depth2, player=-1)
Engines(depth1, depth2) ==
    [ ai1 |-> NewEngine(depth1, 1, TRUE), ai2 |-> NewEngine(depth2, -1, TRUE) ]

\* if game.current_player == 1: ai1 ... else: ai2 ...
Mover(g) == IF g.current_player = 1 THEN "ai1" ELSE "ai2"

\* (mutant) the loop goes on at move 60.
Mut_LoopContinues(g) == ~is_game_over(g) /\ g.move_count <= LoopCap

\* not game.is_game_over() and game.move_count < 60
LoopContinues(g) == ~is_game_over(g) /\ g.move_count < LoopCap

\* Games some passes into the loop.
LoopGames ==
    { [ board |-> b, current_player |-> p, move_count |-> LoopCap - LoopLead ] :
        b \in SearchBoards \cup DeepBoards, p \in {1, -1} }

InitLoop ==
    /\ \/ /\ game = reset
          /\ engine = Engines(1, 1)
       \/ /\ game \in LoopGames
          /\ engine \in { Engines(d, d) : d \in 1 .. MaxDepth }
    /\ random \in { [ seed |-> s, pos |-> 0 ] : s \in 0 .. MaxSeed }
    /\ last = [ op |-> "new", pre |-> game, move |-> NoMove ]

\* if random.random() < 0.3: moves = game.get_valid_moves();
\* if moves: game.make_move(random.choice(moves))
RandomOpening ==
    /\ last.op = "new"
    /\ game = reset
    /\ \E i \in 1 .. Len(get_valid_moves(game)) :
         /\ game' = make_move(game, get_valid_moves(game)[i])
         /\ last' = [ op |-> "opening", pre |-> game, move |-> get_valid_moves(game)[i] ]
    /\ UNCHANGED <<engine, random>>

\* The rest of a pass of the loop, r being what get_best_move returned to
\* the engine ai of the side to move: if move: game_positions.append(...);
\* game.make_move(move).
Passed(ai, r) ==
    /\ game' = IF r.move # NoMove THEN make_move(r.game, r.move) ELSE r.game
    /\ engine' = [ engine EXCEPT ![ai].transposition_table = r.st.tt,
                                 ![ai].nodes_evaluated = r.st.nodes ]
    /\ random' = r.st.rnd
    /\ last' = [ op |-> "pass", pre |-> game, move |-> r.move, by |-> engine[ai].player,
                 appended |-> IF r.move # NoMove
                              THEN << [ board |-> game.board,
                                        player |-> r.game.current_player,
                                        move |-> r.move ] >>
                              ELSE << >> ]

InLoopPlay(g) == g.move_count < MaxLoopPlies \/ g.move_count >= LoopCap - LoopLead

\* One pass of the loop: state = game.board.copy(); valid_moves; the move of
\* the engine of the side to move.
LoopPass ==
    /\ last.op \in {"new", "opening", "pass"}
    /\ InLoopPlay(game)
    /\ LoopContinues(game)
    /\ get_valid_moves(game) # <<>>
    /\ Passed(Mover(game),
              get_best_move(EngineConfig(engine[Mover(game)]), game,
                            SearchState(engine[Mover(game)], random)))

\* The loop is left: the condition of the while is false, or valid_moves is
\* empty (break). winner = game.get_winner()
LoopExit ==
    /\ last.op \in {"new", "opening", "pass"}
    /\ ~LoopContinues(game) \/ get_valid_moves(game) = <<>>
    /\ last' = [ op |-> "exit", pre |-> game, move |-> NoMove, winner |-> get_winner(game) ]
    /\ UNCHANGED <<game, engine, random>>

NextLoop == RandomOpening \/ LoopPass \/ LoopExit

SpecLoop == InitLoop /\ [][NextLoop]_vars

\* C28: every pass of the game loop of generate_single_batch applies exactly
\* one legal move, chosen by the engine whose side is the side to move; the
\* engine never returns None inside the loop; the player recorded with a
\* position is the side that made the recorded move; no pass starts on a
\* finished game or after 60 moves, so the loop ends after at most 60
\* applied moves or as soon as the game is over.
C28_LoopProgress ==
    /\ last.op = "pass" =>
         /\ ~is_game_over(last.pre)
         /\ last.pre.move_count < LoopCap
         /\ last.move # NoMove
         /\ last.move \in Range(get_valid_moves(last.pre))
         /\ game = make_move(last.pre, last.move)
         /\ last.by = last.pre.current_player
         /\ last.appended = << [ board |-> last.pre.board,
                                 player |-> last.pre.current_player,
                                 move |-> last.move ] >>
    /\ last.op = "exit" =>
         /\ game.move_count <= LoopCap
         /\ is_game_over(game) \/ game.move_count = LoopCap

\* The pass that applies the 60th move of a game that is not over, and so
\* ends the loop by its limit.
C28_Witness ==
    /\ last.op = "pass"
    /\ game.move_count = LoopCap
    /\ ~is_game_over(game)
    /\ last.by = -1

\* ------------------------------------------------------------------------
\* The game object over a game

\* C29: in every state reached from the initial position by legal moves,
\* every piece stands on a cell whose row plus column is odd, each side has
\* at most 8 pieces, the side to move is 1 or -1 and alternates with every
\* move, and the move counter is the number of moves applied since reset.
\* Side 1 moves first, so it is to move exactly after an even number of
\* moves.
C29_DarkSquares ==
    /\ \A x \in Cells : game.board[x] # 0 => (x[1] + x[2]) % 2 = 1
    /\ CountPieces(game.board, 1) <= Cardinality(positions_p1)
    /\ CountPieces(game.board, -1) <= Cardinality(positions_p2)
    /\ game.current_player \in {1, -1}
    /\ last.op = "new" => game.move_count = 0 /\ game.current_player = 1
    /\ last.op = "make_move" =>
         /\ game.current_player = -last.pre.current_player
         /\ game.move_count = last.pre.move_count + 1
    /\ game.move_count \in 0 .. MaxPlies
    /\ game.current_player = (IF game.move_count % 2 = 0 THEN 1 ELSE -1)

\* A game from the start position in which a piece has been captured.
C29_Witness ==
    /\ last.op = "make_move"
    /\ game.move_count \in 1 .. MaxPlies
    /\ TotalPieces(game.board) < TotalPieces(reset.board)

\* C30: get_winner is not 0 only on a state that is_game_over reports as
\* finished, and on a finished state get_winner is 0 exactly when the game is
\* finished by the move counter alone: the counter is above 100, both sides
\* have pieces and the side to move has a legal move.
C30_WinnerCoherence ==
    LET winner == get_winner(game)
        over == is_game_over(game)
    IN  /\ winner # 0 => over
        /\ over =>
             (winner = 0 <=>
                /\ game.move_count > MoveCap
                /\ CountPieces(game.board, 1) > 0
                /\ CountPieces(game.board, -1) > 0
                /\ get_valid_moves(game) # <<>>)

\* A game finished by the move counter alone, without a winner.
C30_Witness ==
    /\ last.op = "make_move"
    /\ is_game_over(game)
    /\ get_winner(game) = 0
    /\ game.move_count = MoveCap + 1

====
